---- MODULE Spec2Model ----
(***************************************************************************)
(* A model of the coroutine runtime of LearningCXX:                        *)
(*   step5.cpp  Task / Promise / Loop (ready queue + timer heap)           *)
(*   step6.cpp  the same plus when_all / when_any                          *)
(*   stepHX.cpp TimerLoop (queue + multimap), EpollLoop, AsyncFile,        *)
(*              AsyncLoop                                                  *)
(* Coroutine frames are records; the coroutine that currently executes is  *)
(* cur (0: control is in main or in the executor loop).  A symmetric       *)
(* transfer is an assignment to cur.                                       *)
(***************************************************************************)
EXTENDS Integers, Sequences, FiniteSets, TLC

\* ------------------------------------------------------------- bounds
MaxFrames == 12
MaxTime == 9
MaxSleep == 3

VARIABLES
    impl,         \* which program runs: "step5", "step6" or "stepHX"
    prog,         \* the bodies of the root coroutine functions main calls
    frames,       \* coroutine frames, by handle
    cur,          \* handle of the executing coroutine, 0 when none
    mReadyQueue,  \* Loop::mReadyQueue / TimerLoop::_taskQueue
    mTimerHeap,   \* Loop::mTimerHeap / TimerLoop::_timerRBTree, in insertion order
    now,          \* std::chrono::system_clock::now()
    mainPc,       \* where main is
    mainIdx,      \* how many roots main has handled in its current phase
    loopPc,       \* where the executor loop is
    it,           \* TimerLoop::runAll's iterator (the entry's seq), 0 when unset
    lnow,         \* TimerLoop::runAll's local `now`
    crashed,      \* the process has been terminated
    ub,           \* undefined behaviour has been executed
    timerSeq,     \* number of addTimer calls so far
    added,        \* history: handles given to addTask, in call order
    popped,       \* history: handles resumed from the ready queue, in order
    fired,        \* history: timer entries resumed by the loop, in order
    effects,      \* history: frames whose body printed (debug()), in order
    mainGot,      \* what main read from each root's promise().result()
    \* stepHX.cpp under AsyncLoop::run
    aProg,        \* the coroutines main creates and how it starts each
    aTask,        \* those coroutines: position, state, the AsyncFile held
    aCur,         \* the executing coroutine, 0 when none
    _taskQueue,   \* TimerLoop::_taskQueue
    _timerRBTree, \* TimerLoop::_timerRBTree, in insertion order
    _count,       \* EpollLoop::_count
    interest,     \* the kernel's epoll interest list, by fd
    evs,          \* EpollLoop::_evs: events of the current epoll_wait still to handle
    timeout,      \* AsyncLoop::run's `timeout` (-1: std::nullopt)
    aNow,         \* the clock
    aPc,          \* where main / AsyncLoop::run is
    aMainIdx,     \* how many coroutines main has started
    aUb,          \* undefined behaviour has been executed
    \* stepHX.cpp, class AsyncFile
    files,        \* the AsyncFile objects: lifetime and _fd
    fdtab         \* the descriptors ::socket() has returned: registration, closes

loopVars == <<impl, prog, frames, cur, mReadyQueue, mTimerHeap, now, mainPc,
              mainIdx, loopPc, it, lnow, crashed, ub, timerSeq, added, popped,
              fired, effects, mainGot>>

asyncVars == <<aProg, aTask, aCur, _taskQueue, _timerRBTree, _count, interest, evs,
               timeout, aNow, aPc, aMainIdx, aUb>>

fileVars == <<files, fdtab>>

vars == <<loopVars, asyncVars, fileVars>>

hist == <<added, popped, fired, effects, mainGot>>

FrameIds == 1..MaxFrames

Range(s) == {s[i] : i \in DOMAIN s}

Max(a, b) == IF a >= b THEN a ELSE b

\* ------------------------------------------------- coroutine bodies
\* The statements a user coroutine body is made of.
Effect == [op |-> "effect"]
Ret(v) == [op |-> "ret", v |-> v]
RetGot == [op |-> "retgot"]
Throw(e) == [op |-> "throw", e |-> e]
Sleep(d) == [op |-> "sleep", d |-> d]
Await(b) == [op |-> "await", body |-> b]
Yield(v) == [op |-> "yield", v |-> v]
WhenAll(ks) == [op |-> "whenAll", kids |-> ks]
WhenAny(ks) == [op |-> "whenAny", kids |-> ks]

\* step5.cpp hello1 / hello2: print, sleep, print, return.
hello(d, v) == <<Effect, Sleep(d), Effect, Ret(v)>>

\* ------------------------------------------------------------ frames
kNullIndex == -1

FreeFrame ==
    [kind |-> "free", body |-> <<>>, pc |-> 1, st |-> "none", alive |-> FALSE,
     mPrevious |-> 0, mException |-> 0, mResult |-> <<>>, hasResult |-> FALSE,
     child |-> 0, owned |-> {}, got |-> <<>>, gotExc |-> 0, dur |-> 0,
     mCount |-> 0, cPrevious |-> 0, cException |-> 0, mIndex |-> kNullIndex,
     results |-> <<>>, kids |-> <<>>, helpers |-> <<>>,
     t |-> 0, control |-> 0, index |-> 0,
     resumes |-> 0, startAt |-> 0, doneAt |-> 0, awaitAt |-> 0, gotAt |-> 0,
     writes |-> 0, gotFrom |-> 0, escaped |-> 0, indexWrites |-> 0]

\* Promise::initial_suspend: every coroutine starts suspended.
initial_suspend_never == "suspend_never"
initial_suspend == "suspend_always"

\* Calling a coroutine function: the frame exists, get_return_object() hands out
\* its handle, and the body waits at the initial suspension point.
NewFrame(k, b) ==
    [FreeFrame EXCEPT !.kind = k, !.body = b, !.alive = TRUE,
                      !.st = IF initial_suspend = "suspend_always"
                             THEN "fresh" ELSE "active"]

\* A coroutine called from the body of f.  What code running in a destroyed
\* frame creates belongs to the same undefined execution.
NewFrameBy(f, fs, k, b) == [NewFrame(k, b) EXCEPT !.alive = fs[f].alive]

FreeIds(fs) == {i \in FrameIds : fs[i].kind = "free"}

\* The n-th unused handle (frames are never reused, so a handle to a destroyed
\* frame stays recognisable).
RECURSIVE NthFree(_, _)
NthFree(fs, n) ==
    LET m == CHOOSE i \in FreeIds(fs) : \A j \in FreeIds(fs) : i <= j
    IN IF n = 1 THEN m ELSE NthFree([fs EXCEPT ![m].kind = "taken"], n - 1)

\* Everything a set of Task handles owns: the frames and, through the
\* temporaries and locals alive in them, the frames those own.
RECURSIVE OwnedClosure(_, _)
OwnedClosure(fs, S) ==
    LET T == S \cup UNION {fs[x].owned : x \in S}
    IN IF T = S THEN S ELSE OwnedClosure(fs, T)

\* Task::~Task / ReturnPreviousTask::~ReturnPreviousTask: mCoroutine.destroy().
Destroy(fs, S) ==
    [i \in FrameIds |->
        IF i \in OwnedClosure(fs, S) THEN [fs[i] EXCEPT !.alive = FALSE] ELSE fs[i]]

\* coroutine_handle::resume() reaching a suspended coroutine.
Started(fs, f) ==
    [fs EXCEPT ![f].resumes = @ + 1,
               ![f].st = IF @ = "fresh" THEN "active" ELSE @,
               ![f].startAt = IF fs[f].st = "fresh" THEN now ELSE @]

\* Control goes to handle tgt: by resume() from the loop or by the handle an
\* await_suspend returns (0 stands for std::noop_coroutine(), which gives
\* control back to the caller of resume()).  Resuming a destroyed frame or a
\* coroutine at its final suspension point is undefined: the process dies, or
\* the stale frame runs on as if it were alive.
Resume(fs, tgt) ==
    IF tgt = 0
    THEN /\ frames' = fs
         /\ cur' = 0
         /\ UNCHANGED <<crashed, ub>>
    ELSE IF fs[tgt].alive /\ fs[tgt].st # "final"
    THEN /\ frames' = Started(fs, tgt)
         /\ cur' = tgt
         /\ UNCHANGED <<crashed, ub>>
    ELSE /\ ub' = TRUE
         /\ \E outcome \in {"crash", "stale"} :
              IF outcome = "crash"
              THEN crashed' = TRUE /\ cur' = 0 /\ frames' = fs
              ELSE /\ crashed' = crashed
                   /\ IF fs[tgt].st # "final"
                      THEN frames' = Started(fs, tgt) /\ cur' = tgt
                      ELSE frames' = fs /\ cur' = 0

\* PreviousAwaiter::await_suspend: the continuation if there is one, else noop.
PreviousAwaiter_never(mPrevious) == 0
PreviousAwaiter(mPrevious) == IF mPrevious # 0 THEN mPrevious ELSE 0

\* Promise::unhandled_exception: the exception is stored in the promise.
unhandled_exception_rethrow == "rethrow"
unhandled_exception == "store"

\* Promise::result(): the stored exception if any, else the value.
result_ignores_exception(p) == [exc |-> 0, val |-> p.mResult]
result(p) ==
    IF p.mException # 0 THEN [exc |-> p.mException, val |-> <<>>]
    ELSE [exc |-> 0, val |-> p.mResult]

\* Task::Awaiter::await_suspend: the awaiting coroutine becomes the
\* continuation of the awaited one.
Awaiter_await_suspend(fs, c, coroutine) == [fs EXCEPT ![c].mPrevious = coroutine]

\* The body of co_return / an escaping exception, up to final_suspend: the
\* frame is at its final suspension point and final_suspend's awaiter names
\* the next coroutine.
AtFinal(fs, f) == [fs EXCEPT ![f].st = "final", ![f].doneAt = now]

\* ------------------------------------------------------- the executor
\* Loop::addTask (step5, step6).
Loop_addTask(q, coroutine) == <<coroutine>> \o q

\* TimerLoop::addTask (stepHX).
TimerLoop_addTask(q, coroutine) == Append(q, coroutine)

addTask(q, coroutine) ==
    IF impl = "stepHX" THEN TimerLoop_addTask(q, coroutine)
    ELSE Loop_addTask(q, coroutine)

\* Loop::addTimer / TimerLoop::addTimer.
addTimer(h, expireTime, coroutine, seq) ==
    Append(h, [expireTime |-> expireTime, coroutine |-> coroutine, seq |-> seq])

\* Loop::TimerEntry::operator<.
TimerEntry_less_reversed(a, b) == a.expireTime < b.expireTime
TimerEntry_less(a, b) == a.expireTime > b.expireTime

\* std::priority_queue::top(): an entry no other entry is greater than; which
\* one among equals is the library's choice.
HeapTops(h) ==
    {i \in DOMAIN h : \A j \in DOMAIN h : ~TimerEntry_less(h[i], h[j])}

\* std::multimap::begin(): the smallest key, the earliest inserted among equals.
MapBegin(h) ==
    CHOOSE i \in DOMAIN h :
        /\ \A j \in DOMAIN h : h[i].expireTime <= h[j].expireTime
        /\ \A j \in DOMAIN h : h[j].expireTime = h[i].expireTime => i <= j

RemoveAt(h, i) == SubSeq(h, 1, i - 1) \o SubSeq(h, i + 1, Len(h))

\* std::this_thread::sleep_until(t): the clock is at least t afterwards, and
\* the thread may wake one tick late.
ClockTick == 1
SleepUntilOutcomes(t) ==
    {x \in {Max(now, t), Max(now, t) + ClockTick} : x <= MaxTime}

Running == mainPc = "runAll" /\ loopPc = "run" /\ cur = 0 /\ ~crashed

\* ----------------------------------------------------------- main
\* main: `auto t = hello();` for the next root.
MainCreate ==
    /\ mainPc = "create" /\ cur = 0 /\ ~crashed
    /\ LET i == mainIdx + 1 IN
         /\ i <= Len(prog)
         /\ frames' = [frames EXCEPT ![i] = NewFrame("task", prog[i])]
         /\ cur' = IF initial_suspend = "suspend_always" THEN 0 ELSE i
         /\ mainIdx' = IF i = Len(prog) THEN 0 ELSE i
         /\ mainPc' = IF i = Len(prog) THEN "addTask" ELSE "create"
    /\ UNCHANGED <<impl, prog, mReadyQueue, mTimerHeap, now, loopPc, it, lnow,
                   crashed, ub, timerSeq, hist>>
    /\ UNCHANGED <<asyncVars, fileVars>>

\* How many co_yield the body of a root has: step5's yield_value suspends
\* the coroutine with no resumer, so a main that wants the rest of the body to
\* run has to hand the root to addTask once more for each.
Yields(b) == Cardinality({k \in DOMAIN b : b[k].op = "yield"})
TimesAdded(i) == Cardinality({k \in DOMAIN added : added[k] = i})

\* main: `getLoop().addTask(t);` for the next root; after the last, runAll().
\* A root that yields may be given to addTask again.
MainAddTask ==
    /\ mainPc = "addTask" /\ cur = 0 /\ ~crashed
    /\ LET i == mainIdx + 1 IN
         /\ mReadyQueue' = addTask(mReadyQueue, i)
         /\ added' = Append(added, i)
         /\ \E again \in {FALSE} \cup {TimesAdded(i) < Yields(prog[i])} :
              IF again
              THEN UNCHANGED <<mainIdx, mainPc>>
              ELSE /\ mainIdx' = IF i = Len(prog) THEN 0 ELSE i
                   /\ mainPc' = IF i = Len(prog) THEN "runAll" ELSE "addTask"
    /\ UNCHANGED <<impl, prog, frames, cur, mTimerHeap, now, loopPc, it, lnow,
                   crashed, ub, timerSeq, popped, fired, effects, mainGot>>
    /\ UNCHANGED <<asyncVars, fileVars>>

\* runAll: the inner while: front(), pop_front(), resume().
RunAllPop ==
    /\ Running
    /\ mReadyQueue # <<>>
    /\ LET coroutine == Head(mReadyQueue) IN
         /\ mReadyQueue' = Tail(mReadyQueue)
         /\ popped' = Append(popped, coroutine)
         /\ Resume(frames, coroutine)
    /\ UNCHANGED <<impl, prog, mTimerHeap, now, mainPc, mainIdx, loopPc, it, lnow,
                   timerSeq, added, fired, effects, mainGot>>
    /\ UNCHANGED <<asyncVars, fileVars>>

\* Loop::runAll: the timer at the top of the heap has expired: pop(), resume().
RunAllTimerFire ==
    /\ Running /\ impl # "stepHX"
    /\ mReadyQueue = <<>> /\ mTimerHeap # <<>>
    /\ \E i \in HeapTops(mTimerHeap) :
         LET timer == mTimerHeap[i] IN
           /\ timer.expireTime < now
           /\ mTimerHeap' = RemoveAt(mTimerHeap, i)
           /\ fired' = Append(fired, [expireTime |-> timer.expireTime,
                                      coroutine |-> timer.coroutine,
                                      seq |-> timer.seq, at |-> now,
                                      nreg |-> timerSeq])
           /\ Resume(frames, timer.coroutine)
    /\ UNCHANGED <<impl, prog, mReadyQueue, now, mainPc, mainIdx, loopPc, it, lnow,
                   timerSeq, added, popped, effects, mainGot>>
    /\ UNCHANGED <<asyncVars, fileVars>>

\* Loop::runAll: the timer at the top has not expired: sleep_until(expireTime).
RunAllSleep ==
    /\ Running /\ impl # "stepHX"
    /\ mReadyQueue = <<>> /\ mTimerHeap # <<>>
    /\ \E i \in HeapTops(mTimerHeap) :
         /\ ~(mTimerHeap[i].expireTime < now)
         /\ \E x \in SleepUntilOutcomes(mTimerHeap[i].expireTime) : now' = x
    /\ UNCHANGED <<impl, prog, frames, cur, mReadyQueue, mTimerHeap, mainPc, mainIdx,
                   loopPc, it, lnow, crashed, ub, timerSeq, hist>>
    /\ UNCHANGED <<asyncVars, fileVars>>

\* TimerLoop::runAll: begin() has expired: enter the do-while and resume it.
HXTimerBegin ==
    /\ Running /\ impl = "stepHX"
    /\ mReadyQueue = <<>> /\ mTimerHeap # <<>>
    /\ LET e == mTimerHeap[MapBegin(mTimerHeap)] IN
         /\ now >= e.expireTime
         /\ lnow' = now
         /\ it' = e.seq
         /\ loopPc' = "dowhile"
         /\ fired' = Append(fired, [expireTime |-> e.expireTime,
                                    coroutine |-> e.coroutine,
                                    seq |-> e.seq, at |-> now, nreg |-> timerSeq])
         /\ Resume(frames, e.coroutine)
    /\ UNCHANGED <<impl, prog, mReadyQueue, mTimerHeap, now, mainPc, mainIdx,
                   timerSeq, added, popped, effects, mainGot>>
    /\ UNCHANGED <<asyncVars, fileVars>>

\* TimerLoop::runAll: inside the do-while, after resume() returned: erase(it),
\* then either leave the loop or resume the new begin().
HXTimerNext ==
    /\ mainPc = "runAll" /\ loopPc = "dowhile" /\ cur = 0 /\ ~crashed
    /\ LET h == SelectSeq(mTimerHeap, LAMBDA e : e.seq # it) IN
         /\ mTimerHeap' = h
         /\ IF h # <<>> /\ lnow >= h[MapBegin(h)].expireTime
            THEN LET e == h[MapBegin(h)] IN
                   /\ it' = e.seq
                   /\ loopPc' = "dowhile"
                   /\ fired' = Append(fired, [expireTime |-> e.expireTime,
                                              coroutine |-> e.coroutine,
                                              seq |-> e.seq, at |-> now,
                                              nreg |-> timerSeq])
                   /\ Resume(frames, e.coroutine)
            ELSE /\ it' = 0
                 /\ loopPc' = "run"
                 /\ UNCHANGED <<fired, frames, cur, crashed, ub>>
    /\ UNCHANGED <<impl, prog, mReadyQueue, now, mainPc, mainIdx, lnow,
                   timerSeq, added, popped, effects, mainGot>>
    /\ UNCHANGED <<asyncVars, fileVars>>

\* TimerLoop::runAll: begin() has not expired: sleep_until(it->first).
HXSleep ==
    /\ Running /\ impl = "stepHX"
    /\ mReadyQueue = <<>> /\ mTimerHeap # <<>>
    /\ LET e == mTimerHeap[MapBegin(mTimerHeap)] IN
         /\ ~(now >= e.expireTime)
         /\ \E x \in SleepUntilOutcomes(e.expireTime) : now' = x
    /\ UNCHANGED <<impl, prog, frames, cur, mReadyQueue, mTimerHeap, mainPc, mainIdx,
                   loopPc, it, lnow, crashed, ub, timerSeq, hist>>
    /\ UNCHANGED <<asyncVars, fileVars>>

\* runAll: the outer while ends: nothing in the queue, nothing in the timers.
RunAllReturn ==
    /\ Running
    /\ mReadyQueue = <<>> /\ mTimerHeap = <<>>
    /\ loopPc' = "returned"
    /\ mainPc' = "result"
    /\ mainIdx' = 0
    /\ UNCHANGED <<impl, prog, frames, cur, mReadyQueue, mTimerHeap, now, it, lnow,
                   crashed, ub, timerSeq, hist>>
    /\ UNCHANGED <<asyncVars, fileVars>>

\* main: `t.mCoroutine.promise().result()` of the next root.  An exception
\* that result() rethrows leaves main.
MainResult ==
    /\ mainPc = "result" /\ cur = 0 /\ ~crashed
    /\ LET i == mainIdx + 1
           r == result(frames[i]) IN
         /\ mainGot' = Append(mainGot, r)
         /\ mainIdx' = i
         /\ mainPc' = IF r.exc # 0 \/ i = Len(prog) THEN "exit" ELSE "result"
    /\ UNCHANGED <<impl, prog, frames, cur, mReadyQueue, mTimerHeap, now, loopPc, it,
                   lnow, crashed, ub, timerSeq, added, popped, fired, effects>>
    /\ UNCHANGED <<asyncVars, fileVars>>

\* -------------------------------------------------- coroutine steps
Executing(f) == cur = f /\ f # 0 /\ ~crashed

Instr(f) == frames[f].body[frames[f].pc]

AtInstr(f, o) ==
    /\ Executing(f)
    /\ frames[f].kind = "task"
    /\ frames[f].child = 0
    /\ frames[f].pc <= Len(frames[f].body)
    /\ Instr(f).op = o

\* An exception leaves the body of f: unhandled_exception(), then final_suspend.
\* The temporaries of the interrupted expression are destroyed on the way.
Unhandled(fs, f, e) ==
    LET g == Destroy([fs EXCEPT ![f].owned = {}, ![f].child = 0], fs[f].owned) IN
    IF unhandled_exception = "store"
    THEN /\ Resume(AtFinal([g EXCEPT ![f].mException = e,
                                      ![f].writes = @ + 1], f),
                   PreviousAwaiter(g[f].mPrevious))
    ELSE \* the exception travels up into whoever called resume()
         /\ frames' = AtFinal([g EXCEPT ![f].escaped = e], f)
         /\ cur' = 0
         /\ crashed' = TRUE
         /\ ub' = ub

\* debug(), "...": a visible side effect of the body.
StepEffect(f) ==
    /\ AtInstr(f, "effect")
    /\ effects' = Append(effects, f)
    /\ frames' = [frames EXCEPT ![f].pc = @ + 1]
    /\ UNCHANGED <<impl, prog, cur, mReadyQueue, mTimerHeap, now, mainPc, mainIdx,
                   loopPc, it, lnow, crashed, ub, timerSeq, added, popped, fired,
                   mainGot>>
    /\ UNCHANGED <<asyncVars, fileVars>>

\* co_return v: return_value(v), then final_suspend -> PreviousAwaiter.
StepReturn(f) ==
    /\ \/ AtInstr(f, "ret")
       \/ AtInstr(f, "retgot")
    /\ LET v == IF Instr(f).op = "ret" THEN <<Instr(f).v>> ELSE frames[f].got
           fs == [frames EXCEPT ![f].mResult = v, ![f].hasResult = TRUE,
                                ![f].writes = @ + 1]
       IN Resume(AtFinal(fs, f), PreviousAwaiter(fs[f].mPrevious))
    /\ UNCHANGED <<impl, prog, mReadyQueue, mTimerHeap, now, mainPc, mainIdx,
                   loopPc, it, lnow, timerSeq, hist>>
    /\ UNCHANGED <<asyncVars, fileVars>>

\* throw e, not caught in the body.
StepThrow(f) ==
    /\ AtInstr(f, "throw")
    /\ Unhandled(frames, f, Instr(f).e)
    /\ UNCHANGED <<impl, prog, mReadyQueue, mTimerHeap, now, mainPc, mainIdx,
                   loopPc, it, lnow, timerSeq, hist>>
    /\ UNCHANGED <<asyncVars, fileVars>>

\* co_yield v (step5's Promise::yield_value): the value is put in mResult and
\* the coroutine suspends (suspend_always); control returns to the resumer.
StepYield(f) ==
    /\ AtInstr(f, "yield")
    /\ frames' = [frames EXCEPT ![f].mResult = <<Instr(f).v>>,
                                ![f].hasResult = TRUE,
                                ![f].writes = @ + 1,
                                ![f].pc = @ + 1]
    /\ cur' = 0
    /\ UNCHANGED <<impl, prog, mReadyQueue, mTimerHeap, now, mainPc, mainIdx,
                   loopPc, it, lnow, crashed, ub, timerSeq, hist>>
    /\ UNCHANGED <<asyncVars, fileVars>>

\* `co_await child()` and `co_await sleep_for(d)`: the callee's frame is
\* created (a temporary Task of the awaiting expression), Task::Awaiter makes
\* f its continuation, and control transfers to it.
StepAwait(f) ==
    /\ \/ AtInstr(f, "await")
       \/ AtInstr(f, "sleep")
    /\ FreeIds(frames) # {}
    /\ LET c == NthFree(frames, 1)
           nf == IF Instr(f).op = "await"
                 THEN NewFrameBy(f, frames, "task", Instr(f).body)
                 ELSE [NewFrameBy(f, frames, "sleep_for", <<>>) EXCEPT
                         !.dur = Instr(f).d]
           fs == [frames EXCEPT ![c] = nf,
                                ![f].child = c,
                                ![f].owned = {c},
                                ![f].awaitAt = now]
       IN Resume(Awaiter_await_suspend(fs, c, f), c)
    /\ UNCHANGED <<impl, prog, mReadyQueue, mTimerHeap, now, mainPc, mainIdx,
                   loopPc, it, lnow, timerSeq, hist>>
    /\ UNCHANGED <<asyncVars, fileVars>>

\* Task::Awaiter::await_resume in f, resumed by its awaited child: result() of
\* the child's promise is the value of the await expression, or its exception
\* is thrown at the await point; the temporary Task is destroyed.
AwaitResume(f) ==
    /\ Executing(f)
    /\ frames[f].kind = "task"
    /\ frames[f].child # 0
    /\ LET c == frames[f].child
           r == result(frames[c])
           fs == [frames EXCEPT ![f].gotAt = now, ![f].gotExc = r.exc,
                                ![f].gotFrom = c,
                                ![f].got = r.val]
       IN IF r.exc # 0
          THEN Unhandled(fs, f, r.exc)
          ELSE /\ frames' = Destroy([fs EXCEPT ![f].child = 0, ![f].owned = {},
                                               ![f].pc = @ + 1], fs[f].owned)
               /\ UNCHANGED <<cur, crashed, ub>>
    /\ UNCHANGED <<impl, prog, mReadyQueue, mTimerHeap, now, mainPc, mainIdx,
                   loopPc, it, lnow, timerSeq, hist>>
    /\ UNCHANGED <<asyncVars, fileVars>>

\* sleep_for's body up to its suspension: SleepAwaiter::await_suspend adds the
\* timer (now() + duration, this coroutine) and returns void, so control goes
\* back to the resumer.
SleepStart(f) ==
    /\ Executing(f)
    /\ frames[f].kind = "sleep_for" /\ frames[f].pc = 1
    /\ timerSeq' = timerSeq + 1
    /\ mTimerHeap' = addTimer(mTimerHeap, now + frames[f].dur, f, timerSeq + 1)
    /\ frames' = [frames EXCEPT ![f].pc = 2]
    /\ cur' = 0
    /\ UNCHANGED <<impl, prog, mReadyQueue, now, mainPc, mainIdx, loopPc, it, lnow,
                   crashed, ub, hist>>
    /\ UNCHANGED <<asyncVars, fileVars>>

\* sleep_for's body after the timer fired: return_void, final_suspend.
SleepWake(f) ==
    /\ Executing(f)
    /\ frames[f].kind = "sleep_for" /\ frames[f].pc = 2
    /\ Resume(AtFinal([frames EXCEPT ![f].pc = 3], f),
              PreviousAwaiter(frames[f].mPrevious))
    /\ UNCHANGED <<impl, prog, mReadyQueue, mTimerHeap, now, mainPc, mainIdx,
                   loopPc, it, lnow, timerSeq, hist>>
    /\ UNCHANGED <<asyncVars, fileVars>>


\* ------------------------------------------------ when_all / when_any
\* Uninitialized<T>::putValue / moveValue on the i-th result cell (a cell is
\* <<>> until a value is put, <<v>> after).
putValue(cells, i, v) == [cells EXCEPT ![i] = <<v>>]
moveValue(cell) == IF cell = <<>> THEN <<>> ELSE cell[1]

RECURSIVE TupleOf(_)
TupleOf(cells) ==
    IF cells = <<>> THEN <<>> ELSE moveValue(Head(cells)) \o TupleOf(Tail(cells))

RECURSIVE AddTasks(_, _)
AddTasks(q, hs) ==
    IF hs = <<>> THEN q ELSE AddTasks(addTask(q, Head(hs)), Tail(hs))

IsImpl(k) == k \in {"whenAllImpl", "whenAnyImpl"}
IsHelper(k) == k \in {"whenAllHelper", "whenAnyHelper"}

\* `co_await when_all(c1(), ..., cN())` / `co_await when_any(...)` in f: the
\* argument Tasks and the whenAllImpl / whenAnyImpl Task are temporaries of the
\* awaiting expression; all are created suspended; Task::Awaiter makes f the
\* continuation of the Impl coroutine and transfers to it.
StepWhen(f) ==
    /\ \/ AtInstr(f, "whenAll")
       \/ AtInstr(f, "whenAny")
    /\ LET n == Len(Instr(f).kids) IN
         /\ Cardinality(FreeIds(frames)) >= n + 1
         /\ LET kid(i) == NthFree(frames, i)
                c == NthFree(frames, n + 1)
                k == IF Instr(f).op = "whenAll" THEN "whenAllImpl" ELSE "whenAnyImpl"
                fs == [j \in FrameIds |->
                         IF j = f
                         THEN [frames[f] EXCEPT !.child = c,
                                 !.owned = {c} \cup {kid(i) : i \in 1..n},
                                 !.awaitAt = now]
                         ELSE IF j = c
                         THEN [NewFrameBy(f, frames, k, <<>>) EXCEPT
                                 !.kids = [i \in 1..n |-> kid(i)]]
                         ELSE IF \E i \in 1..n : j = kid(i)
                         THEN NewFrameBy(f, frames, "task",
                                Instr(f).kids[CHOOSE i \in 1..n : j = kid(i)])
                         ELSE frames[j]]
            IN Resume(Awaiter_await_suspend(fs, c, f), c)
    /\ UNCHANGED <<impl, prog, mReadyQueue, mTimerHeap, now, mainPc, mainIdx,
                   loopPc, it, lnow, timerSeq, hist>>
    /\ UNCHANGED <<asyncVars, fileVars>>

\* WhenAllCtlBlock{sizeof...(Ts)}: mCount starts at the number of children.
WhenAllCtlBlock_mCount(n) == n

\* whenAllImpl / whenAnyImpl up to `co_await WhenAllAwaiter(control, taskArray)`:
\* the control block, the result cells and one helper coroutine per child (all
\* suspended) are locals of the frame; await_suspend stores the Impl coroutine
\* in control.mPrevious, gives the helpers 1.. to addTask and returns helper 0.
ImplStart(f) ==
    /\ Executing(f)
    /\ IsImpl(frames[f].kind) /\ frames[f].pc = 1
    /\ LET n == Len(frames[f].kids) IN
         /\ Cardinality(FreeIds(frames)) >= n
         /\ LET h(i) == NthFree(frames, i)
                hk == IF frames[f].kind = "whenAllImpl"
                      THEN "whenAllHelper" ELSE "whenAnyHelper"
                hs == [i \in 1..n |-> h(i)]
                fs == [j \in FrameIds |->
                         IF j = f
                         THEN [frames[f] EXCEPT
                                 !.pc = 2,
                                 !.mCount = WhenAllCtlBlock_mCount(n),
                                 !.mIndex = kNullIndex,
                                 !.cException = 0,
                                 !.cPrevious = f,
                                 !.results = [i \in 1..n |-> <<>>],
                                 !.helpers = hs,
                                 !.owned = {h(i) : i \in 1..n}]
                         ELSE IF \E i \in 1..n : j = h(i)
                         THEN LET i == CHOOSE i \in 1..n : j = h(i) IN
                              [NewFrameBy(f, frames, hk, <<>>) EXCEPT
                                 !.t = frames[f].kids[i],
                                 !.control = f,
                                 !.index = i - 1]
                         ELSE frames[j]]
            IN /\ mReadyQueue' = AddTasks(mReadyQueue, Tail(hs))
               /\ added' = added \o Tail(hs)
               /\ Resume(fs, Head(hs))
    /\ UNCHANGED <<impl, prog, mTimerHeap, now, mainPc, mainIdx, loopPc, it, lnow,
                   timerSeq, popped, fired, effects, mainGot>>
    /\ UNCHANGED <<asyncVars, fileVars>>

\* whenAllHelper / whenAnyHelper up to `co_await t`: Task::Awaiter makes the
\* helper the continuation of its child and transfers to the child.
HelperStart(f) ==
    /\ Executing(f)
    /\ IsHelper(frames[f].kind) /\ frames[f].pc = 1
    /\ LET c == frames[f].t
           fs == [frames EXCEPT ![f].pc = 2, ![f].child = c, ![f].awaitAt = now]
       IN Resume(Awaiter_await_suspend(fs, c, f), c)
    /\ UNCHANGED <<impl, prog, mReadyQueue, mTimerHeap, now, mainPc, mainIdx,
                   loopPc, it, lnow, timerSeq, hist>>
    /\ UNCHANGED <<asyncVars, fileVars>>

\* What whenAllHelper co_returns after a successful child: control.mPrevious
\* when the count has reached 0, nullptr otherwise.
whenAllHelper_returns_always(mCount, mPrevious) == mPrevious
whenAllHelper_returns(mCount, mPrevious) == IF mCount = 0 THEN mPrevious ELSE 0

\* whenAllHelper after its child finished.  The child threw: the exception is
\* stored in the control block and control.mPrevious is returned at once.
\* Otherwise the value is put in the result cell and the count decremented.
\* ReturnPreviousPromise::return_value stores the returned handle in mPrevious,
\* and final_suspend's PreviousAwaiter transfers to it.
WhenAllHelperResume(f) ==
    /\ Executing(f)
    /\ frames[f].kind = "whenAllHelper" /\ frames[f].pc = 2
    /\ LET c == frames[f].control
           r == result(frames[frames[f].t])
           g == [frames EXCEPT ![f].gotAt = now, ![f].gotExc = r.exc,
                               ![f].gotFrom = frames[f].t,
                               ![f].got = r.val, ![f].pc = 3, ![f].child = 0]
       IN IF r.exc # 0
          THEN LET fs == [g EXCEPT ![c].cException = r.exc,
                                   ![f].mPrevious = g[c].cPrevious]
               IN Resume(AtFinal(fs, f), PreviousAwaiter(fs[f].mPrevious))
          ELSE LET fs1 == [g EXCEPT
                             ![c].results = putValue(@, frames[f].index + 1, r.val),
                             ![c].mCount = @ - 1]
                   fs == [fs1 EXCEPT ![f].mPrevious =
                            whenAllHelper_returns(fs1[c].mCount, fs1[c].cPrevious)]
               IN Resume(AtFinal(fs, f), PreviousAwaiter(fs[f].mPrevious))
    /\ UNCHANGED <<impl, prog, mReadyQueue, mTimerHeap, now, mainPc, mainIdx,
                   loopPc, it, lnow, timerSeq, hist>>
    /\ UNCHANGED <<asyncVars, fileVars>>

\* `--control.mIndex = index;`: the decremented slot is assigned the index.
whenAnyHelper_mIndex_decremented(mIndex, index) == mIndex - 1
whenAnyHelper_mIndex(mIndex, index) == index

\* whenAnyHelper after its child finished: like whenAllHelper for an exception;
\* otherwise the value is put, mIndex set, and control.mPrevious returned.
WhenAnyHelperResume(f) ==
    /\ Executing(f)
    /\ frames[f].kind = "whenAnyHelper" /\ frames[f].pc = 2
    /\ LET c == frames[f].control
           r == result(frames[frames[f].t])
           g == [frames EXCEPT ![f].gotAt = now, ![f].gotExc = r.exc,
                               ![f].gotFrom = frames[f].t,
                               ![f].got = r.val, ![f].pc = 3, ![f].child = 0]
       IN IF r.exc # 0
          THEN LET fs == [g EXCEPT ![c].cException = r.exc,
                                   ![f].mPrevious = g[c].cPrevious]
               IN Resume(AtFinal(fs, f), PreviousAwaiter(fs[f].mPrevious))
          ELSE LET fs == [g EXCEPT
                            ![c].results = putValue(@, frames[f].index + 1, r.val),
                            ![c].mIndex = whenAnyHelper_mIndex(@, frames[f].index),
                            ![c].indexWrites = @ + 1,
                            ![f].mPrevious = g[c].cPrevious]
               IN Resume(AtFinal(fs, f), PreviousAwaiter(fs[f].mPrevious))
    /\ UNCHANGED <<impl, prog, mReadyQueue, mTimerHeap, now, mainPc, mainIdx,
                   loopPc, it, lnow, timerSeq, hist>>
    /\ UNCHANGED <<asyncVars, fileVars>>

\* The variant whenAnyImpl builds: in_place_index<mIndex> holding that cell.
VariantOf(mIndex, cells) ==
    IF mIndex \in 0..(Len(cells) - 1)
    THEN <<mIndex>> \o moveValue(cells[mIndex + 1])
    ELSE <<>>

\* whenAllImpl / whenAnyImpl resumed by a helper: await_resume rethrows
\* control.mException if set; otherwise the tuple / variant is co_returned.
\* taskArray (the helper frames) is destroyed with the other locals before
\* final_suspend transfers to the awaiting coroutine.
ImplResume(f) ==
    /\ Executing(f)
    /\ IsImpl(frames[f].kind) /\ frames[f].pc = 2
    /\ LET g == [frames EXCEPT ![f].pc = 3, ![f].gotAt = now,
                               ![f].gotExc = frames[f].cException]
       IN IF g[f].cException # 0
          THEN Unhandled(g, f, g[f].cException)
          ELSE LET v == IF g[f].kind = "whenAllImpl"
                        THEN TupleOf(g[f].results)
                        ELSE VariantOf(g[f].mIndex, g[f].results)
                   fs == Destroy([g EXCEPT ![f].mResult = v, ![f].hasResult = TRUE,
                                           ![f].writes = @ + 1, ![f].owned = {}],
                                 g[f].owned)
               IN Resume(AtFinal(fs, f), PreviousAwaiter(fs[f].mPrevious))
    /\ UNCHANGED <<impl, prog, mReadyQueue, mTimerHeap, now, mainPc, mainIdx,
                   loopPc, it, lnow, timerSeq, hist>>
    /\ UNCHANGED <<asyncVars, fileVars>>

\* ------------------------------------------------------ programs
Durations == 1..MaxSleep

\* step5's main with hello1/hello2 sleeping a and b; three sleepers (the
\* 30/10/20 timer scenario); chains of awaits; a failing child; two sleeps in a
\* row.
CommonPrograms ==
    {<<hello(a, 1), hello(b, 2)>> : a \in Durations, b \in Durations}
    \cup {<<hello(3, 0), hello(1, 1), hello(2, 2)>>,
          <<hello(1, 0), hello(1, 1), hello(2, 2)>>}
    \cup {<<<<Await(<<Await(<<Ret(42)>>), RetGot>>), RetGot>>>>,
          <<<<Await(<<Sleep(1), Await(<<Effect, Ret(42)>>), RetGot>>), Effect, RetGot>>,
            <<Ret(5)>>>>,
          <<<<Await(<<Await(<<Throw(7)>>), RetGot>>), Effect, RetGot>>>>,
          <<<<Effect, Await(<<Sleep(2), Throw(8)>>), Ret(1)>>, hello(1, 2)>>,
          <<<<Sleep(1), Sleep(2), Ret(3)>>, <<Throw(9)>>>>}

Step5Programs ==
    CommonPrograms
    \cup {<<<<Effect, Yield(1), Effect, Ret(2)>>>>,
          <<<<Await(<<Yield(1), Ret(2)>>), RetGot>>, hello(1, 3)>>}

\* step6's hello: a parent awaiting when_any / when_all of sleeping, returning
\* and throwing children.
Kids ==
    {<<hello(a, 1), hello(b, 2)>> : a \in Durations, b \in Durations}
    \cup {<<hello(1, 1), hello(2, 2), hello(2, 2)>>,
          <<<<Ret(1)>>, <<Ret(2)>>>>,
          <<<<Throw(7)>>, hello(1, 2)>>,
          <<hello(2, 1), <<Sleep(1), Throw(7)>>>>,
          <<hello(1, 1), <<Sleep(2), Throw(7)>>>>}

Step6Programs ==
    CommonPrograms
    \cup {<<<<Effect, WhenAny(ks), Effect, RetGot>>>> : ks \in Kids}
    \cup {<<<<Effect, WhenAll(ks), Effect, RetGot>>>> : ks \in Kids}

Programs(i) ==
    IF i = "step5" THEN Step5Programs
    ELSE IF i = "step6" THEN Step6Programs
    ELSE CommonPrograms

\* ------------------------------------------- stepHX.cpp: AsyncLoop
MaxTasks == 2
TaskIds == 1..MaxTasks

\* What the coroutines under AsyncLoop do between suspensions.
Open(ok) == [op |-> "open", ok |-> ok]
WaitFd(oneshot) == [op |-> "wait", oneshot |-> oneshot]
Close == [op |-> "close"]
Connect == [op |-> "connect"]
Write == [op |-> "write"]
Read == [op |-> "read"]
Borrow(k) == [op |-> "borrow", of |-> k]

\* The errno values the program meets (Linux numbers; writeFile compares with
\* the literal 11, socketConnect with 115).
Errno == [EBADF |-> 9, EAGAIN |-> 11, ECONNREFUSED |-> 111, EINPROGRESS |-> 115]

\* The system calls made by the coroutine's current (or last) I/O operation:
\* how many ::read, ::write, co_await waitFileEvent (waits; parks counts those
\* that suspended), getsockopt(SO_ERROR) (queries); the first and the last
\* result of read / write; the result of ::connect; the value co_returned.
NoCall == [len |-> 0, errno |-> 0]
NoIo ==
    [op |-> "none", reads |-> 0, writes |-> 0, waits |-> 0, parks |-> 0,
     queries |-> 0, first |-> NoCall, last |-> NoCall, res |-> NoCall,
     done |-> FALSE, ret |-> 0]

\* fd: 0 while the coroutine holds no AsyncFile, -1 for an AsyncFile made from
\* a failed ::socket(), else the descriptor (the coroutine's own number).
\* wid counts the waitFileEvent coroutines it has created.  sub is the position
\* inside readFile / writeFile / socketConnect: "start", "waiting" in
\* co_await waitFileEvent, "woken" after it, "loop" at socketConnect's while.
\* waitMask: the mask of its last waitFileEvent; waitGot: what that co_await
\* returned; waitFailed: addListener returned false for it.
IdleTask ==
    [script |-> <<>>, pc |-> 1, st |-> "none", fd |-> 0, wid |-> 0,
     failedWaits |-> 0, resumes |-> 0, sub |-> "start", io |-> NoIo,
     waitMask |-> {}, waitGot |-> {}, waitFailed |-> FALSE]

\* An fd the epoll instance does not watch.  in: the fd is in the interest
\* list; ptr / wid: event.data.ptr (the promise of which waitFileEvent
\* coroutine, 0 for nullptr); armed: some event is asked for and not disabled.
NoInterest ==
    [in |-> FALSE, ptr |-> 0, wid |-> 0, oneshot |-> FALSE, armed |-> FALSE]

\* ------------------------------------------- stepHX.cpp: class AsyncFile
MaxFiles == 3
MaxFds == 2
FileIds == 1..MaxFiles
FdIds == 1..MaxFds

\* An AsyncFile object: "none" before its constructor, "live", "dead" after
\* its destructor.
NoFile == [st |-> "none", _fd |-> -1]

\* A descriptor: made by ::socket(); by: the object constructed from it;
\* in: it is in the epoll interest list; closes: the ::close calls on it;
\* inAtClose: it was in the interest list when ::close was called; closedBy:
\* the object whose destructor closed it.
NoFd ==
    [made |-> FALSE, by |-> 0, in |-> FALSE, closes |-> 0, inAtClose |-> FALSE,
     closedBy |-> 0]

FileIdle ==
    /\ files = [o \in FileIds |-> NoFile]
    /\ fdtab = [fd \in FdIds |-> NoFd]

AsyncIdle ==
    /\ aProg = <<>>
    /\ aTask = [t \in TaskIds |-> IdleTask]
    /\ aCur = 0
    /\ _taskQueue = <<>>
    /\ _timerRBTree = <<>>
    /\ _count = 0
    /\ interest = [fd \in TaskIds |-> NoInterest]
    /\ evs = <<>>
    /\ timeout = -1
    /\ aNow = 0
    /\ aPc = "off"
    /\ aMainIdx = 0
    /\ aUb = {}

Init ==
    /\ impl \in {"step5", "step6", "stepHX"}
    /\ prog \in Programs(impl)
    /\ frames = [i \in FrameIds |-> FreeFrame]
    /\ cur = 0
    /\ mReadyQueue = <<>>
    /\ mTimerHeap = <<>>
    /\ now = 0
    /\ mainPc = "create"
    /\ mainIdx = 0
    /\ loopPc = "run"
    /\ it = 0
    /\ lnow = 0
    /\ crashed = FALSE
    /\ ub = FALSE
    /\ timerSeq = 0
    /\ added = <<>>
    /\ popped = <<>>
    /\ fired = <<>>
    /\ effects = <<>>
    /\ mainGot = <<>>
    /\ AsyncIdle
    /\ FileIdle

Next ==
    \/ MainCreate
    \/ MainAddTask
    \/ RunAllPop
    \/ RunAllTimerFire
    \/ RunAllSleep
    \/ HXTimerBegin
    \/ HXTimerNext
    \/ HXSleep
    \/ RunAllReturn
    \/ MainResult
    \/ \E f \in FrameIds :
         \/ StepEffect(f)
         \/ StepReturn(f)
         \/ StepThrow(f)
         \/ StepYield(f)
         \/ StepAwait(f)
         \/ AwaitResume(f)
         \/ SleepStart(f)
         \/ SleepWake(f)
         \/ StepWhen(f)
         \/ ImplStart(f)
         \/ HelperStart(f)
         \/ WhenAllHelperResume(f)
         \/ WhenAnyHelperResume(f)
         \/ ImplResume(f)

Spec == Init /\ [][Next]_vars

\* ------------------------------------------- stepHX.cpp: AsyncLoop
LoopIdle ==
    /\ impl = "asyncHX"
    /\ prog = <<>>
    /\ frames = [i \in FrameIds |-> FreeFrame]
    /\ cur = 0
    /\ mReadyQueue = <<>>
    /\ mTimerHeap = <<>>
    /\ now = 0
    /\ mainPc = "off"
    /\ mainIdx = 0
    /\ loopPc = "off"
    /\ it = 0
    /\ lnow = 0
    /\ crashed = FALSE
    /\ ub = FALSE
    /\ timerSeq = 0
    /\ added = <<>>
    /\ popped = <<>>
    /\ fired = <<>>
    /\ effects = <<>>
    /\ mainGot = <<>>

AExecuting(t) == aCur = t /\ aPc \notin {"off", "crashed", "terminated"}
AInstr(t) == aTask[t].script[aTask[t].pc]
AAtInstr(t, o) ==
    /\ AExecuting(t)
    /\ aTask[t].pc <= Len(aTask[t].script)
    /\ AInstr(t).op = o

\* main: TimerLoop::getLoop().addTask(handle) for the next coroutine.
AsyncMainAddTask ==
    /\ aPc = "main" /\ aCur = 0
    /\ LET i == aMainIdx + 1 IN
         /\ i <= Len(aProg)
         /\ aProg[i].start = "addTask"
         /\ _taskQueue' = TimerLoop_addTask(_taskQueue, i)
         /\ aMainIdx' = i
    /\ UNCHANGED <<aProg, aTask, aCur, _timerRBTree, _count, interest, evs, timeout,
                   aNow, aPc, aUb>>
    /\ UNCHANGED <<loopVars, fileVars>>

\* main: handle.resume() for the next coroutine (lazily started, it runs to
\* its first suspension before main goes on).
AsyncMainResume ==
    /\ aPc = "main" /\ aCur = 0
    /\ LET i == aMainIdx + 1 IN
         /\ i <= Len(aProg)
         /\ aProg[i].start = "resume"
         /\ aTask' = [aTask EXCEPT ![i].st = "running", ![i].resumes = @ + 1]
         /\ aCur' = i
         /\ aMainIdx' = i
    /\ UNCHANGED <<aProg, _taskQueue, _timerRBTree, _count, interest, evs, timeout,
                   aNow, aPc, aUb>>
    /\ UNCHANGED <<loopVars, fileVars>>

\* main: AsyncLoop::run() is entered.
AsyncMainRun ==
    /\ aPc = "main" /\ aCur = 0
    /\ aMainIdx = Len(aProg)
    /\ aPc' = "timers"
    /\ UNCHANGED <<aProg, aTask, aCur, _taskQueue, _timerRBTree, _count, interest,
                   evs, timeout, aNow, aMainIdx, aUb>>
    /\ UNCHANGED <<loopVars, fileVars>>

\* AsyncFile::AsyncFile(int fd): O_NONBLOCK, epoll_ctl(ADD, events = EPOLLET,
\* data.ptr = nullptr) with the result ignored, ++_count.
AsyncFile_ctor(t) ==
    /\ AAtInstr(t, "open")
    /\ LET fd == IF AInstr(t).ok THEN t ELSE -1 IN
         /\ aTask' = [aTask EXCEPT ![t].fd = fd, ![t].pc = @ + 1]
         /\ interest' = IF fd # -1
                        THEN [interest EXCEPT ![fd] = [NoInterest EXCEPT !.in = TRUE]]
                        ELSE interest
         /\ _count' = _count + 1
    /\ UNCHANGED <<aProg, aCur, _taskQueue, _timerRBTree, evs, timeout, aNow, aPc,
                   aMainIdx, aUb>>
    /\ UNCHANGED <<loopVars, fileVars>>

\* EpollLoop::addListener with EPOLL_CTL_MOD: epoll_ctl fails for fd -1 (EBADF)
\* and for an fd that is not in the interest list (ENOENT).
addListener(fd) == fd \in TaskIds /\ interest[fd].in

\* The event mask each caller of waitFileEvent passes.
MaskOf(o) ==
    CASE o.op = "read" -> {"EPOLLIN", "EPOLLERR"}
      [] o.op = "write" -> {"EPOLLOUT", "EPOLLERR", "EPOLLET", "EPOLLONESHOT"}
      [] o.op = "connect" -> {"EPOLLOUT", "EPOLLERR", "EPOLLHUP"}
      [] o.op = "wait" -> {"EPOLLOUT", "EPOLLERR"}
                            \cup (IF o.oneshot THEN {"EPOLLONESHOT"} ELSE {})

\* EpollFileAwaiter::await_resume: `return _mask;`, whether the coroutine was
\* resumed by EpollLoop::run or by await_suspend after addListener failed.
EpollFileAwaiter_await_resume(_mask, listened) == _mask

\* co_await waitFileEvent(_fd, mask): EpollFileAwaiter::await_suspend registers
\* the new coroutine's promise; if addListener fails it resumes the coroutine
\* at once, and the awaiting coroutine goes on.
waitFileEvent(t) ==
    /\ AAtInstr(t, "wait")
    /\ LET fd == aTask[t].fd IN
         IF addListener(fd)
         THEN /\ interest' = [interest EXCEPT ![fd] =
                    [in |-> TRUE, ptr |-> t, wid |-> aTask[t].wid + 1,
                     oneshot |-> AInstr(t).oneshot, armed |-> TRUE]]
              /\ aTask' = [aTask EXCEPT ![t].st = "parked", ![t].wid = @ + 1,
                                        ![t].waitMask = MaskOf(AInstr(t)),
                                        ![t].waitFailed = FALSE]
              /\ aCur' = 0
         ELSE /\ aTask' = [aTask EXCEPT ![t].pc = @ + 1, ![t].wid = @ + 1,
                                        ![t].failedWaits = @ + 1,
                                        ![t].waitMask = MaskOf(AInstr(t)),
                                        ![t].waitFailed = TRUE,
                                        ![t].waitGot = EpollFileAwaiter_await_resume(
                                                           MaskOf(AInstr(t)), FALSE)]
              /\ UNCHANGED <<interest, aCur>>
    /\ UNCHANGED <<aProg, _taskQueue, _timerRBTree, _count, evs, timeout, aNow, aPc,
                   aMainIdx, aUb>>
    /\ UNCHANGED <<loopVars, fileVars>>

\* EpollFileAwaiter::await_suspend for a co_await waitFileEvent(fd, mask) made
\* inside an I/O operation of t, whose state is `task`: the registration
\* replaces the fd's event mask and data.ptr (EPOLL_CTL_MOD) and t is
\* suspended; if addListener fails the coroutine is resumed at once.
EpollFileAwaiter_await_suspend(t, task, oneshot) ==
    LET fd == task.fd
        mask == MaskOf(task.script[task.pc])
        w == [task EXCEPT !.wid = @ + 1, !.io.waits = @ + 1, !.waitMask = mask]
    IN IF addListener(fd)
       THEN /\ interest' = [interest EXCEPT ![fd] =
                  [in |-> TRUE, ptr |-> t, wid |-> w.wid,
                   oneshot |-> oneshot, armed |-> TRUE]]
            /\ aTask' = [aTask EXCEPT ![t] =
                  [w EXCEPT !.st = "parked", !.sub = "waiting", !.io.parks = @ + 1,
                            !.waitFailed = FALSE]]
            /\ aCur' = 0
       ELSE /\ aTask' = [aTask EXCEPT ![t] =
                  [w EXCEPT !.sub = "woken", !.failedWaits = @ + 1,
                            !.waitFailed = TRUE,
                            !.waitGot = EpollFileAwaiter_await_resume(mask, FALSE)]]
            /\ UNCHANGED <<interest, aCur>>

\* ::read on a non-blocking fd: some bytes, end of file, EAGAIN, or an error;
\* EBADF for fd -1.
sys_read(fd) ==
    IF fd \notin TaskIds
    THEN {[len |-> -1, errno |-> Errno.EBADF]}
    ELSE {[len |-> 1, errno |-> 0], [len |-> 0, errno |-> 0],
          [len |-> -1, errno |-> Errno.EAGAIN],
          [len |-> -1, errno |-> Errno.ECONNREFUSED]}

\* ::write on a non-blocking fd.
sys_write(fd) ==
    IF fd \notin TaskIds
    THEN {[len |-> -1, errno |-> Errno.EBADF]}
    ELSE {[len |-> 1, errno |-> 0],
          [len |-> -1, errno |-> Errno.EAGAIN],
          [len |-> -1, errno |-> Errno.ECONNREFUSED]}

\* ::connect on a non-blocking socket: connected at once, in progress, or
\* refused at once.
sys_connect(fd) ==
    IF fd \notin TaskIds
    THEN {[len |-> -1, errno |-> Errno.EBADF]}
    ELSE {[len |-> 0, errno |-> 0],
          [len |-> -1, errno |-> Errno.EINPROGRESS],
          [len |-> -1, errno |-> Errno.ECONNREFUSED]}

\* getsockopt(fd, SOL_SOCKET, SO_ERROR, &error, &len): its return value and
\* the pending error it stores.
sys_getsockopt(fd) ==
    IF fd \notin TaskIds
    THEN {[ret |-> -1, error |-> 0]}
    ELSE {[ret |-> 0, error |-> 0], [ret |-> 0, error |-> Errno.ECONNREFUSED]}

\* readFile: `if (readLen == -1 && errno == EAGAIN)`.
readFile_wouldBlock_any_error(readLen, errno) == readLen = -1
readFile_wouldBlock(readLen, errno) == readLen = -1 /\ errno = Errno.EAGAIN

\* AsyncFile::readFile up to its first suspension: one ::read; if it would
\* block, co_await waitFileEvent(_fd, EPOLLIN | EPOLLERR); else co_return.
readFile(t) ==
    /\ AAtInstr(t, "read")
    /\ aTask[t].sub = "start"
    /\ \E r \in sys_read(aTask[t].fd) :
         LET a == [aTask[t] EXCEPT !.io = [NoIo EXCEPT !.op = "read", !.reads = 1,
                                                       !.first = r, !.last = r]]
         IN IF readFile_wouldBlock(r.len, r.errno)
            THEN EpollFileAwaiter_await_suspend(t, a, FALSE)
            ELSE /\ aTask' = [aTask EXCEPT ![t] =
                       [a EXCEPT !.pc = @ + 1, !.io.done = TRUE, !.io.ret = r.len]]
                 /\ UNCHANGED <<interest, aCur>>
    /\ UNCHANGED <<aProg, _taskQueue, _timerRBTree, _count, evs, timeout, aNow, aPc,
                   aMainIdx, aUb>>
    /\ UNCHANGED <<loopVars, fileVars>>

\* AsyncFile::readFile after the wait: `readLen = ::read(...)` once more, then
\* co_return readLen.
readFile_again(t) ==
    /\ AAtInstr(t, "read")
    /\ aTask[t].sub = "woken"
    /\ \E r \in sys_read(aTask[t].fd) :
         aTask' = [aTask EXCEPT ![t].io.reads = @ + 1, ![t].io.last = r,
                                ![t].io.done = TRUE, ![t].io.ret = r.len,
                                ![t].pc = @ + 1, ![t].sub = "start"]
    /\ UNCHANGED <<aProg, aCur, _taskQueue, _timerRBTree, _count, interest, evs,
                   timeout, aNow, aPc, aMainIdx, aUb>>
    /\ UNCHANGED <<loopVars, fileVars>>

\* AsyncFile::writeFile up to its suspension: its first statement is
\* co_await waitFileEvent(_fd, EPOLLOUT | EPOLLERR | EPOLLET | EPOLLONESHOT).
writeFile(t) ==
    /\ AAtInstr(t, "write")
    /\ aTask[t].sub = "start"
    /\ EpollFileAwaiter_await_suspend(
           t, [aTask[t] EXCEPT !.io = [NoIo EXCEPT !.op = "write"]], TRUE)
    /\ UNCHANGED <<aProg, _taskQueue, _timerRBTree, _count, evs, timeout, aNow, aPc,
                   aMainIdx, aUb>>
    /\ UNCHANGED <<loopVars, fileVars>>

\* AsyncFile::writeFile after the wait: one ::write; `writeLen == -1 && errno
\* != 11` ends in `throw;` with no exception being handled, which calls
\* std::terminate; else co_return writeLen.
writeFile_write(t) ==
    /\ AAtInstr(t, "write")
    /\ aTask[t].sub = "woken"
    /\ \E w \in sys_write(aTask[t].fd) :
         LET a == [aTask[t] EXCEPT !.io.writes = @ + 1, !.io.last = w,
                                   !.io.first = IF @ = NoCall THEN w ELSE @]
         IN IF w.len = -1 /\ w.errno # 11
            THEN /\ aTask' = [aTask EXCEPT ![t] = a]
                 /\ aPc' = "terminated"
                 /\ aCur' = 0
            ELSE /\ aTask' = [aTask EXCEPT ![t] =
                       [a EXCEPT !.io.done = TRUE, !.io.ret = w.len,
                                 !.pc = @ + 1, !.sub = "start"]]
                 /\ UNCHANGED <<aPc, aCur>>
    /\ UNCHANGED <<aProg, _taskQueue, _timerRBTree, _count, interest, evs, timeout,
                   aNow, aMainIdx, aUb>>
    /\ UNCHANGED <<loopVars, fileVars>>

\* socketConnect: `int res = ::connect(...)`; the while loop is skipped when
\* res is not -1.
socketConnect(t) ==
    /\ AAtInstr(t, "connect")
    /\ aTask[t].sub = "start"
    /\ \E r \in sys_connect(aTask[t].fd) :
         LET a == [aTask[t] EXCEPT !.io = [NoIo EXCEPT !.op = "connect", !.res = r]]
         IN aTask' = [aTask EXCEPT ![t] =
                IF r.len = -1
                THEN [a EXCEPT !.sub = "loop"]
                ELSE [a EXCEPT !.io.done = TRUE, !.pc = @ + 1]]
    /\ UNCHANGED <<aProg, aCur, _taskQueue, _timerRBTree, _count, interest, evs,
                   timeout, aNow, aPc, aMainIdx, aUb>>
    /\ UNCHANGED <<loopVars, fileVars>>

\* socketConnect, `while (res == -1)`: co_await waitFileEvent(fd, EPOLLOUT |
\* EPOLLERR | EPOLLHUP).  res is assigned nowhere in the loop.
MaxWaits == 3
socketConnect_wait(t) ==
    /\ AAtInstr(t, "connect")
    /\ aTask[t].sub = "loop"
    /\ aTask[t].io.res.len = -1
    /\ aTask[t].io.waits < MaxWaits
    /\ EpollFileAwaiter_await_suspend(t, aTask[t], FALSE)
    /\ UNCHANGED <<aProg, _taskQueue, _timerRBTree, _count, evs, timeout, aNow, aPc,
                   aMainIdx, aUb>>
    /\ UNCHANGED <<loopVars, fileVars>>

\* socketConnect after the wait: getsockopt(SO_ERROR); `break` if it returned
\* 0 and error == 0, else the loop goes round.
socketConnect_getsockopt(t) ==
    /\ AAtInstr(t, "connect")
    /\ aTask[t].sub = "woken"
    /\ \E e \in sys_getsockopt(aTask[t].fd) :
         aTask' = [aTask EXCEPT ![t] =
             IF e.ret = 0 /\ e.error = 0
             THEN [@ EXCEPT !.io.queries = @ + 1, !.io.done = TRUE,
                            !.pc = @ + 1, !.sub = "start"]
             ELSE [@ EXCEPT !.io.queries = @ + 1, !.io.ret = e.error,
                            !.sub = "loop"]]
    /\ UNCHANGED <<aProg, aCur, _taskQueue, _timerRBTree, _count, interest, evs,
                   timeout, aNow, aPc, aMainIdx, aUb>>
    /\ UNCHANGED <<loopVars, fileVars>>

\* The coroutine works on the AsyncFile of another coroutine, handed to it by
\* reference (as socketConnect(const AsyncFile &fd, ...) is).
BorrowFile(t) ==
    /\ AAtInstr(t, "borrow")
    /\ aTask' = [aTask EXCEPT ![t].fd = aTask[AInstr(t).of].fd, ![t].pc = @ + 1]
    /\ UNCHANGED <<aProg, aCur, _taskQueue, _timerRBTree, _count, interest, evs,
                   timeout, aNow, aPc, aMainIdx, aUb>>
    /\ UNCHANGED <<loopVars, fileVars>>

\* co_await sleep_for(d): SleepAwaiter::await_suspend -> TimerLoop::addTimer.
TimerLoop_addTimer(t) ==
    /\ AAtInstr(t, "sleep")
    /\ _timerRBTree' = Append(_timerRBTree,
                              [expireTime |-> aNow + AInstr(t).d, coroutine |-> t])
    /\ aTask' = [aTask EXCEPT ![t].st = "sleeping"]
    /\ aCur' = 0
    /\ UNCHANGED <<aProg, _taskQueue, _count, interest, evs, timeout, aNow, aPc,
                   aMainIdx, aUb>>
    /\ UNCHANGED <<loopVars, fileVars>>

\* AsyncFile::~AsyncFile: nothing for _fd == -1; else removeListener
\* (epoll_ctl(DEL), --_count) and ::close.
AsyncFile_dtor(t) ==
    /\ AAtInstr(t, "close")
    /\ LET fd == aTask[t].fd IN
         IF fd \in TaskIds
         THEN /\ interest' = [interest EXCEPT ![fd] = NoInterest]
              /\ _count' = _count - 1
         ELSE UNCHANGED <<interest, _count>>
    /\ aTask' = [aTask EXCEPT ![t].fd = 0, ![t].pc = @ + 1]
    /\ UNCHANGED <<aProg, aCur, _taskQueue, _timerRBTree, evs, timeout, aNow, aPc,
                   aMainIdx, aUb>>
    /\ UNCHANGED <<loopVars, fileVars>>

\* The coroutine's body ends; control returns to whoever resumed it.
TaskFinish(t) ==
    /\ AExecuting(t)
    /\ aTask[t].pc > Len(aTask[t].script)
    /\ aTask' = [aTask EXCEPT ![t].st = "done"]
    /\ aCur' = 0
    /\ UNCHANGED <<aProg, _taskQueue, _timerRBTree, _count, interest, evs, timeout,
                   aNow, aPc, aMainIdx, aUb>>
    /\ UNCHANGED <<loopVars, fileVars>>

\* TimerLoop::run, an expired first entry: `_timerRBTree.erase(it);
\* it->second.resume();` reads the entry through the erased iterator.
TimerLoop_run_fire ==
    /\ aPc = "timers" /\ aCur = 0
    /\ _timerRBTree # <<>>
    /\ LET i == MapBegin(_timerRBTree)
           e == _timerRBTree[i]
       IN /\ e.expireTime < aNow
          /\ _timerRBTree' = RemoveAt(_timerRBTree, i)
          /\ aUb' = aUb \cup {"read of erased iterator"}
          /\ \E outcome \in {"resume", "crash"} :
               IF outcome = "resume"
               THEN /\ aTask' = [aTask EXCEPT ![e.coroutine].st = "running",
                                              ![e.coroutine].pc = @ + 1,
                                              ![e.coroutine].resumes = @ + 1]
                    /\ aCur' = e.coroutine
                    /\ aPc' = aPc
               ELSE /\ aPc' = "crashed"
                    /\ UNCHANGED <<aTask, aCur>>
    /\ UNCHANGED <<aProg, _taskQueue, _count, interest, evs, timeout, aNow,
                   aMainIdx>>
    /\ UNCHANGED <<loopVars, fileVars>>

\* TimerLoop::run returns: the time to the first deadline, or std::nullopt
\* when no timer is left.
TimerLoop_run_return ==
    /\ aPc = "timers" /\ aCur = 0
    /\ IF _timerRBTree = <<>>
       THEN timeout' = -1
       ELSE LET e == _timerRBTree[MapBegin(_timerRBTree)] IN
            /\ ~(e.expireTime < aNow)
            /\ timeout' = e.expireTime - aNow
    /\ aPc' = "choose"
    /\ UNCHANGED <<aProg, aTask, aCur, _taskQueue, _timerRBTree, _count, interest,
                   evs, aNow, aMainIdx, aUb>>
    /\ UNCHANGED <<loopVars, fileVars>>

\* EpollLoop::hasEvent.
hasEvent == _count # 0

\* AsyncLoop::run: `if (EpollLoop::get().hasEvent()) EpollLoop::get().run(timeout)`.
AsyncLoop_run_epoll ==
    /\ aPc = "choose"
    /\ hasEvent
    /\ aPc' = "epoll_wait"
    /\ UNCHANGED <<aProg, aTask, aCur, _taskQueue, _timerRBTree, _count, interest,
                   evs, timeout, aNow, aMainIdx, aUb>>
    /\ UNCHANGED <<loopVars, fileVars>>

\* AsyncLoop::run: `else if (timeout) std::this_thread::sleep_for(*timeout)`.
AsyncLoop_run_sleep ==
    /\ aPc = "choose"
    /\ ~hasEvent
    /\ timeout >= 0
    /\ \E x \in {aNow + timeout, aNow + timeout + ClockTick} :
         /\ x <= MaxTime
         /\ aNow' = x
    /\ aPc' = "timers"
    /\ UNCHANGED <<aProg, aTask, aCur, _taskQueue, _timerRBTree, _count, interest,
                   evs, timeout, aMainIdx, aUb>>
    /\ UNCHANGED <<loopVars, fileVars>>

\* AsyncLoop::run: `else break`.
AsyncLoop_run_break ==
    /\ aPc = "choose"
    /\ ~hasEvent
    /\ timeout = -1
    /\ aPc' = "returned"
    /\ UNCHANGED <<aProg, aTask, aCur, _taskQueue, _timerRBTree, _count, interest,
                   evs, timeout, aNow, aMainIdx, aUb>>
    /\ UNCHANGED <<loopVars, fileVars>>

\* `epollTimeOut = timeout->count()`: the number of clock periods in the
\* duration, which epoll_wait takes for a number of time units.
PeriodsPerUnit == 2
duration_count(d) == d * PeriodsPerUnit

Armed == {fd \in TaskIds : interest[fd].in /\ interest[fd].armed}

RECURSIVE SeqOf(_)
SeqOf(S) ==
    IF S = {} THEN <<>>
    ELSE LET m == CHOOSE x \in S : \A y \in S : x <= y
         IN <<m>> \o SeqOf(S \ {m})

\* EpollLoop::run, epoll_wait returns events: some watched fds are ready.  A
\* registration made with EPOLLONESHOT is disabled by the delivery.
EpollLoop_run_events ==
    /\ aPc = "epoll_wait"
    /\ \E S \in SUBSET Armed :
         /\ S # {}
         /\ evs' = [k \in DOMAIN SeqOf(S) |->
                      [ptr |-> interest[SeqOf(S)[k]].ptr,
                       wid |-> interest[SeqOf(S)[k]].wid]]
         /\ interest' = [fd \in TaskIds |->
                           IF fd \in S /\ interest[fd].oneshot
                           THEN [interest[fd] EXCEPT !.armed = FALSE]
                           ELSE interest[fd]]
    /\ aPc' = "events"
    /\ UNCHANGED <<aProg, aTask, aCur, _taskQueue, _timerRBTree, _count, timeout,
                   aNow, aMainIdx, aUb>>
    /\ UNCHANGED <<loopVars, fileVars>>

\* EpollLoop::run, epoll_wait returns 0 after its timeout.
EpollLoop_run_timeout ==
    /\ aPc = "epoll_wait"
    /\ timeout >= 0
    /\ \E x \in {aNow + duration_count(timeout),
                 aNow + duration_count(timeout) + ClockTick} :
         /\ x <= MaxTime
         /\ aNow' = x
    /\ aPc' = "timers"
    /\ UNCHANGED <<aProg, aTask, aCur, _taskQueue, _timerRBTree, _count, interest,
                   evs, timeout, aMainIdx, aUb>>
    /\ UNCHANGED <<loopVars, fileVars>>

\* EpollLoop::run, epoll_wait(-1) with no fd ever becoming ready: the thread
\* stays in the call.
EpollLoop_run_block ==
    /\ aPc = "epoll_wait"
    /\ timeout = -1
    /\ aPc' = "blocked"
    /\ UNCHANGED <<aProg, aTask, aCur, _taskQueue, _timerRBTree, _count, interest,
                   evs, timeout, aNow, aMainIdx, aUb>>
    /\ UNCHANGED <<loopVars, fileVars>>

\* EpollLoop::run, the for loop: from_promise(*(EpollFilePromise *)data.ptr)
\* .resume().  The promise is gone if its waitFileEvent coroutine has been
\* resumed before.
EpollLoop_run_resume ==
    /\ aPc = "events" /\ aCur = 0
    /\ evs # <<>>
    /\ evs' = Tail(evs)
    /\ LET t == Head(evs).ptr IN
         IF aTask[t].st = "parked" /\ aTask[t].wid = Head(evs).wid
         THEN /\ aTask' = [aTask EXCEPT ![t] =
                    IF @.sub = "waiting"
                    THEN [@ EXCEPT !.st = "running", !.sub = "woken",
                                   !.resumes = @ + 1,
                                   !.waitGot = EpollFileAwaiter_await_resume(
                                                   aTask[t].waitMask, TRUE)]
                    ELSE [@ EXCEPT !.st = "running", !.pc = @ + 1,
                                   !.resumes = @ + 1,
                                   !.waitGot = EpollFileAwaiter_await_resume(
                                                   aTask[t].waitMask, TRUE)]]
              /\ aCur' = t
              /\ UNCHANGED <<aPc, aUb>>
         ELSE /\ aUb' = aUb \cup {"resume of a destroyed coroutine"}
              /\ \E outcome \in {"nothing", "crash"} :
                   aPc' = IF outcome = "crash" THEN "crashed" ELSE aPc
              /\ UNCHANGED <<aTask, aCur>>
    /\ UNCHANGED <<aProg, _taskQueue, _timerRBTree, _count, interest, timeout, aNow,
                   aMainIdx>>
    /\ UNCHANGED <<loopVars, fileVars>>

\* EpollLoop::run returns true; AsyncLoop::run loops.
EpollLoop_run_return ==
    /\ aPc = "events" /\ aCur = 0
    /\ evs = <<>>
    /\ aPc' = "timers"
    /\ UNCHANGED <<aProg, aTask, aCur, _taskQueue, _timerRBTree, _count, interest,
                   evs, timeout, aNow, aMainIdx, aUb>>
    /\ UNCHANGED <<loopVars, fileVars>>

\* What main gives to run: connect-like, write-like and read-like waits on a
\* socket, a failed ::socket(), sleeps, a file that outlives the coroutine.
AsyncScripts ==
    {<<Open(TRUE), WaitFd(FALSE), Close>>,
     <<Open(TRUE), WaitFd(FALSE), WaitFd(TRUE), WaitFd(FALSE), Close>>,
     <<Open(TRUE), WaitFd(TRUE), Sleep(1), Close>>,
     <<Open(TRUE), WaitFd(FALSE), Sleep(1), Close>>,
     <<Open(FALSE), Close>>,
     <<Open(FALSE), WaitFd(FALSE), Close>>,
     <<Open(TRUE)>>,
     <<Sleep(1), Open(TRUE), Sleep(2), Close>>,
     <<Open(TRUE), Connect, Write, Read, Read, Close>>,
     <<Open(TRUE), Read, Sleep(1), Close>>,
     <<Open(TRUE), Write, Close>>,
     <<Open(TRUE), Connect, Sleep(1), Close>>,
     <<Open(FALSE), Connect, Close>>,
     <<Open(FALSE), Write, Read, Close>>}
    \cup {<<Sleep(d)>> : d \in Durations}

AsyncPrograms ==
    {<<[start |-> "resume", script |-> s]>> : s \in AsyncScripts}
    \cup {<<[start |-> "addTask", script |-> <<Sleep(1)>>],
            [start |-> "resume", script |-> s]>> : s \in AsyncScripts}
    \cup {<<[start |-> "resume", script |-> <<Sleep(d)>>],
            [start |-> "resume", script |-> <<Open(TRUE), WaitFd(o), Close>>]>> :
            d \in Durations, o \in BOOLEAN}
    \cup {<<[start |-> "addTask", script |-> <<Sleep(1)>>]>>}
    \cup {<<[start |-> "resume", script |-> <<Open(TRUE), Read, Close>>],
            [start |-> "resume", script |-> <<Borrow(1), Write>>]>>,
          <<[start |-> "resume", script |-> <<Open(TRUE), Write, Read, Close>>],
            [start |-> "resume", script |-> <<Borrow(1), Read>>]>>}

InitAsync ==
    /\ LoopIdle
    /\ aProg \in AsyncPrograms
    /\ aTask = [t \in TaskIds |->
                  IF t <= Len(aProg)
                  THEN [IdleTask EXCEPT !.script = aProg[t].script, !.st = "fresh"]
                  ELSE IdleTask]
    /\ aCur = 0
    /\ _taskQueue = <<>>
    /\ _timerRBTree = <<>>
    /\ _count = 0
    /\ interest = [fd \in TaskIds |-> NoInterest]
    /\ evs = <<>>
    /\ timeout = -1
    /\ aNow = 0
    /\ aPc = "main"
    /\ aMainIdx = 0
    /\ aUb = {}
    /\ FileIdle

NextAsync ==
    \/ AsyncMainAddTask
    \/ AsyncMainResume
    \/ AsyncMainRun
    \/ TimerLoop_run_fire
    \/ TimerLoop_run_return
    \/ AsyncLoop_run_epoll
    \/ AsyncLoop_run_sleep
    \/ AsyncLoop_run_break
    \/ EpollLoop_run_events
    \/ EpollLoop_run_timeout
    \/ EpollLoop_run_block
    \/ EpollLoop_run_resume
    \/ EpollLoop_run_return
    \/ \E t \in TaskIds :
         \/ AsyncFile_ctor(t)
         \/ waitFileEvent(t)
         \/ TimerLoop_addTimer(t)
         \/ AsyncFile_dtor(t)
         \/ BorrowFile(t)
         \/ readFile(t)
         \/ readFile_again(t)
         \/ writeFile(t)
         \/ writeFile_write(t)
         \/ socketConnect(t)
         \/ socketConnect_wait(t)
         \/ socketConnect_getsockopt(t)
         \/ TaskFinish(t)

SpecAsync == InitAsync /\ [][NextAsync]_vars

\* ------------------------------------------- stepHX.cpp: class AsyncFile
\* The other members of asyncVars, which AsyncFile does not touch.
reactorVars == <<aProg, aTask, aCur, _taskQueue, _timerRBTree, interest, evs,
                 timeout, aNow, aPc, aMainIdx, aUb>>

\* What ::socket() can return: -1, or a descriptor not handed out before.
socket ==
    {-1} \cup {fd \in FdIds : ~fdtab[fd].made /\ \A g \in 1..(fd - 1) : fdtab[g].made}

\* AsyncFile::AsyncFile(): _fd(-1).
AsyncFile_default(o) ==
    /\ files[o].st = "none"
    /\ files' = [files EXCEPT ![o] = [st |-> "live", _fd |-> -1]]
    /\ UNCHANGED <<fdtab, _count>>
    /\ UNCHANGED <<loopVars, reactorVars>>

\* AsyncFile::AsyncFile(int fd), fd being what ::socket() returned:
\* epoll_ctl(ADD) with the result ignored (EBADF for -1), ++_count.
AsyncFile_from_fd(o) ==
    /\ files[o].st = "none"
    /\ \E fd \in socket :
         /\ files' = [files EXCEPT ![o] = [st |-> "live", _fd |-> fd]]
         /\ fdtab' = IF fd \in FdIds
                      THEN [fdtab EXCEPT ![fd].made = TRUE, ![fd].by = o,
                                         ![fd].in = TRUE]
                      ELSE fdtab
         /\ _count' = _count + 1
    /\ UNCHANGED <<loopVars, reactorVars>>

\* AsyncFile(AsyncFile &&that): what the constructor leaves in that._fd.
moved_from_fd_kept(fd) == fd
moved_from_fd(fd) == -1

\* AsyncFile(AsyncFile &&that) noexcept : _fd(that._fd) { that._fd = -1; }
AsyncFile_move(o, that) ==
    /\ files[o].st = "none"
    /\ files[that].st = "live"
    /\ files' = [files EXCEPT ![o] = [st |-> "live", _fd |-> files[that]._fd],
                                ![that]._fd = moved_from_fd(files[that]._fd)]
    /\ UNCHANGED <<fdtab, _count>>
    /\ UNCHANGED <<loopVars, reactorVars>>

\* AsyncFile &operator=(AsyncFile &&that): std::swap(_fd, that._fd).
AsyncFile_move_assign(o, that) ==
    /\ files[o].st = "live"
    /\ files[that].st = "live"
    /\ o # that
    /\ files' = [files EXCEPT ![o]._fd = files[that]._fd,
                                ![that]._fd = files[o]._fd]
    /\ UNCHANGED <<fdtab, _count>>
    /\ UNCHANGED <<loopVars, reactorVars>>

\* EpollLoop::removeListener(fd): epoll_ctl(DEL), --_count.
removeListener(tab, fd) == [tab EXCEPT ![fd].in = FALSE]

\* ::close(fd).
close(tab, fd, o) ==
    [tab EXCEPT ![fd].closes = @ + 1, ![fd].inAtClose = tab[fd].in,
                ![fd].closedBy = o]

\* AsyncFile::~AsyncFile: nothing for _fd == -1; else removeListener(_fd),
\* ::close(_fd), _fd = -1.
AsyncFile_destroy(o) ==
    /\ files[o].st = "live"
    /\ LET fd == files[o]._fd IN
         IF fd = -1
         THEN UNCHANGED <<fdtab, _count>>
         ELSE /\ fdtab' = close(removeListener(fdtab, fd), fd, o)
              /\ _count' = _count - 1
    /\ files' = [files EXCEPT ![o] = [st |-> "dead", _fd |-> -1]]
    /\ UNCHANGED <<loopVars, reactorVars>>

InitFile ==
    /\ LoopIdle
    /\ AsyncIdle
    /\ FileIdle

NextFile ==
    \E o \in FileIds :
        \/ AsyncFile_default(o)
        \/ AsyncFile_from_fd(o)
        \/ AsyncFile_destroy(o)
        \/ \E that \in FileIds :
             \/ AsyncFile_move(o, that)
             \/ AsyncFile_move_assign(o, that)

SpecFile == InitFile /\ [][NextFile]_vars

\* ================================================================ properties
Roots == 1..Len(prog)
MaxOf(S) == CHOOSE x \in S : \A y \in S : y <= x
Live(f) == frames[f].kind # "free" /\ frames[f].alive

\* ---------------------------------------------------------------- C1
\* C1 (laziness): a coroutine that was created and never resumed has run no
\* step of its body: it is at its initial suspension point, has produced no
\* effect, holds no result or exception, awaits nothing and has no timer.
C1_Laziness ==
    \A f \in FrameIds :
        (frames[f].kind # "free" /\ frames[f].resumes = 0) =>
            /\ frames[f].st = "fresh"
            /\ frames[f].pc = 1
            /\ frames[f].child = 0
            /\ ~frames[f].hasResult
            /\ frames[f].mException = 0
            /\ \A i \in DOMAIN effects : effects[i] # f
            /\ \A i \in DOMAIN mTimerHeap : mTimerHeap[i].coroutine # f
            /\ cur # f

\* A task was created, never resumed, and destroyed while others ran.
C1_Witness ==
    \E f \in FrameIds :
        /\ frames[f].kind = "task"
        /\ frames[f].resumes = 0
        /\ ~frames[f].alive
        /\ effects # <<>>

\* ---------------------------------------------------------------- C2
\* The value a body computes when every await yields its child's value.
RECURSIVE EvalFrom(_, _, _)
EvalFrom(body, i, got) ==
    IF i > Len(body) THEN <<>>
    ELSE LET o == body[i] IN
         CASE o.op = "ret" -> <<o.v>>
           [] o.op = "retgot" -> got
           [] o.op = "await" -> EvalFrom(body, i + 1, EvalFrom(o.body, 1, <<>>))
           [] o.op = "sleep" -> EvalFrom(body, i + 1, <<>>)
           [] OTHER -> EvalFrom(body, i + 1, got)

\* Bodies made of effects, sleeps, awaits of such bodies and a return.
RECURSIVE Plain(_)
Plain(body) ==
    \A i \in DOMAIN body :
        /\ body[i].op \in {"effect", "ret", "retgot", "sleep", "await"}
        /\ body[i].op = "await" => Plain(body[i].body)

\* While T awaits C, T is C's recorded continuation.
C2_Recorded ==
    \A p \in FrameIds :
        (Live(p) /\ frames[p].kind = "task" /\ frames[p].child # 0) =>
            frames[frames[p].child].mPrevious = p

\* The await expression has the value the child returned.
C2_Value ==
    /\ \A p \in FrameIds :
           (Live(p) /\ frames[p].gotFrom # 0 /\ frames[p].gotExc = 0) =>
               frames[p].got = frames[frames[p].gotFrom].mResult
    /\ \A f \in FrameIds :
           (Live(f) /\ frames[f].kind = "task" /\ frames[f].st = "final"
                    /\ Plain(frames[f].body)) =>
               frames[f].mResult = EvalFrom(frames[f].body, 1, <<>>)

\* The step in which an awaited C reaches its final suspension hands control
\* straight to its continuation, and the ready queue is not involved.
C2_Transfer ==
    \A c \in FrameIds :
        (/\ Live(c)
         /\ frames[c].st # "final"
         /\ frames'[c].st = "final"
         /\ ~IsHelper(frames[c].kind)
         /\ frames[c].mPrevious # 0) =>
            /\ cur' = frames[c].mPrevious
            /\ frames'[frames[c].mPrevious].resumes
                 = frames[frames[c].mPrevious].resumes + 1
            /\ mReadyQueue' = mReadyQueue
            /\ popped' = popped

\* C2 (await protocol): awaiting C records the awaiter as C's continuation;
\* when C reaches its final suspension the awaiter is the very next coroutine
\* to run, resumed directly and not through the ready queue; the await
\* expression's value is what C returned (so a chain returning 42 gives 42).
C2_AwaitProtocol == [](C2_Recorded /\ C2_Value) /\ [][C2_Transfer]_vars

\* The root of the chain A <- B <- C has finished with C's 42.
C2_Witness ==
    /\ prog = <<<<Await(<<Await(<<Ret(42)>>), RetGot>>), RetGot>>>>
    /\ frames[1].st = "final"
    /\ frames[1].mResult = <<42>>
    /\ mReadyQueue = <<>>
    /\ popped = <<1>>

\* ---------------------------------------------------------------- C3
\* What the awaiter receives is what result() of the awaited promise gives:
\* the stored exception, raised at the await point, or else the value.
C3_Raised ==
    \A p \in FrameIds :
        (Live(p) /\ frames[p].gotFrom # 0) =>
            /\ frames[p].gotExc = frames[frames[p].gotFrom].mException
            /\ (frames[p].kind = "task" /\ frames[p].gotExc # 0) =>
                   /\ frames[p].st = "final"
                   /\ frames[p].mException = frames[p].gotExc
                   /\ ~frames[p].hasResult

\* main's result() gives the root's stored exception, and no exception ever
\* leaves a coroutine into the resume() call of the executor loop.
C3_Contained ==
    /\ \A i \in DOMAIN mainGot : mainGot[i].exc = frames[i].mException
    /\ \A f \in FrameIds : frames[f].escaped = 0

\* A child ending by an exception resumes its continuation exactly as one
\* ending by co_return does.
C3_Transfer ==
    \A c \in FrameIds :
        (/\ Live(c)
         /\ frames[c].st # "final"
         /\ frames'[c].st = "final"
         /\ frames'[c].mException # 0
         /\ frames[c].kind = "task"
         /\ frames[c].mPrevious # 0) =>
            /\ cur' = frames[c].mPrevious
            /\ ~crashed'

\* C3 (exception propagation): an exception escaping an awaited child is stored
\* in the child's promise, the child still resumes its continuation, the same
\* exception is raised at the parent's await point (and by result() for a
\* root), and it is never raised into the executor loop.
C3_ExceptionPropagation == [](C3_Raised /\ C3_Contained) /\ [][C3_Transfer]_vars

\* The exception 7 thrown two awaits down has reached main through the root.
C3_Witness ==
    /\ prog = <<<<Await(<<Await(<<Throw(7)>>), RetGot>>), Effect, RetGot>>>>
    /\ frames[1].gotExc = 7
    /\ mainGot = <<[exc |-> 7, val |-> <<>>]>>
    /\ effects = <<>>
    /\ ~crashed

\* ---------------------------------------------------------------- C4
IsPrefix(s, t) == Len(s) <= Len(t) /\ \A i \in DOMAIN s : s[i] = t[i]

\* C4 (ready-queue FIFO): with no timer ever registered, the coroutines given
\* to addTask are resumed in the order they were given.
C4_ReadyQueueFIFO == timerSeq = 0 => IsPrefix(popped, added)

\* ---------------------------------------------------------------- C5
\* C5 (timer earliest-first): of two pending timers with distinct deadlines the
\* one with the earlier deadline is resumed first: a timer that fired was no
\* later than any timer with another deadline that was registered by then and
\* fired after it or is still pending.
C5_TimerEarliestFirst ==
    /\ \A i, j \in DOMAIN fired :
           (/\ i < j
            /\ fired[j].seq <= fired[i].nreg
            /\ fired[i].expireTime # fired[j].expireTime) =>
               fired[i].expireTime < fired[j].expireTime
    /\ \A i \in DOMAIN fired : \A k \in DOMAIN mTimerHeap :
           (/\ mTimerHeap[k].seq <= fired[i].nreg
            /\ mTimerHeap[k].expireTime # fired[i].expireTime) =>
               fired[i].expireTime < mTimerHeap[k].expireTime

\* Deadlines 3, 1, 2 registered in this order were resumed in the order 1, 2, 0.
C5_Witness ==
    /\ Len(fired) = 3
    /\ \A i \in 1..3 : fired[i].nreg = 3
    /\ <<fired[1].seq, fired[2].seq, fired[3].seq>> = <<2, 3, 1>>
    /\ <<fired[1].expireTime, fired[2].expireTime, fired[3].expireTime>> = <<1, 2, 3>>

\* ---------------------------------------------------------------- C6
Parked == {t \in TaskIds : aTask[t].st = "parked"}

\* C6 (executor termination), for AsyncLoop::run: the loop has returned only
\* if no resumer is queued, no timer is pending and no coroutine is parked on
\* an fd; and it stays in epoll_wait without a timeout only while a coroutine
\* is parked on an fd.
C6_ExecutorTermination ==
    /\ aPc = "returned" =>
           /\ _taskQueue = <<>>
           /\ _timerRBTree = <<>>
           /\ Parked = {}
    /\ aPc = "blocked" => Parked # {}

\* ---------------------------------------------------------------- C7
\* C7 (root result observable): when the loop returns, every root given to
\* addTask is at its final suspension point, so result() is its value or its
\* exception.
C7_RootResultObservable ==
    loopPc = "returned" => \A i \in Roots : frames[i].st = "final"

\* ---------------------------------------------------------------- C8
\* The longest a body can take: a sleep of d is over within d plus one clock
\* tick, awaits add up, the children of a combinator overlap.
RECURSIVE SleepBound(_), InstrBound(_)
InstrBound(o) ==
    CASE o.op = "sleep" -> o.d + ClockTick
      [] o.op = "await" -> SleepBound(o.body)
      [] o.op \in {"whenAll", "whenAny"} ->
             MaxOf({0} \cup {SleepBound(o.kids[i]) : i \in DOMAIN o.kids})
      [] OTHER -> 0
SleepBound(b) == IF b = <<>> THEN 0 ELSE InstrBound(Head(b)) + SleepBound(Tail(b))

IsHello(b) == Len(b) = 4 /\ b[2].op = "sleep"

\* Two roots sleeping a and b: each is done within its own sleep, both within
\* the longer one, and (sleeps longer than a tick) before a + b.
C8_Roots ==
    /\ \A i \in Roots :
           frames[i].st = "final" => frames[i].doneAt <= SleepBound(prog[i])
    /\ (/\ Len(prog) = 2 /\ IsHello(prog[1]) /\ IsHello(prog[2])
        /\ frames[1].st = "final" /\ frames[2].st = "final") =>
           LET a == prog[1][2].d
               b == prog[2][2].d
               done == MaxOf({frames[1].doneAt, frames[2].doneAt})
           IN /\ done >= MaxOf({a, b})
              /\ done <= MaxOf({a, b}) + ClockTick
              /\ (a > ClockTick /\ b > ClockTick) => done < a + b

\* The children of a when_all: measured from the when_all's start.
C8_WhenAll ==
    \A c \in FrameIds :
        (frames[c].kind = "whenAllImpl" /\ Live(c)) =>
            /\ \A i \in DOMAIN frames[c].kids :
                   LET k == frames[c].kids[i] IN
                   frames[k].st = "final" =>
                       frames[k].doneAt - frames[c].startAt
                           <= SleepBound(frames[k].body)
            /\ frames[c].st = "final" =>
                   frames[c].doneAt - frames[c].startAt
                       <= MaxOf({0} \cup {SleepBound(frames[frames[c].kids[i]].body) :
                                          i \in DOMAIN frames[c].kids})

RaceOf(c, a, b) ==
    /\ frames[c].kind = "whenAnyImpl"
    /\ Len(frames[c].kids) = 2
    /\ frames[frames[c].kids[1]].body = hello(a, 1)
    /\ frames[frames[c].kids[2]].body = hello(b, 2)

\* C9 (two-sleep race): a parent awaiting when_any of a task sleeping a and
\* returning 1 and a task sleeping b > a and returning 2 is resumed when the
\* clock has passed a (not b), with a variant of index 0 holding 1; the slower
\* child has not completed by then.
C9_TwoSleepRace ==
    \A c \in FrameIds : \A a, b \in Durations :
        (RaceOf(c, a, b) /\ a < b) =>
            LET p == frames[c].mPrevious
                slow == frames[c].kids[2]
            IN /\ Live(slow) => frames[slow].st # "final"
               /\ (p # 0 /\ frames[p].gotFrom = c) =>
                      /\ frames[p].gotExc = 0
                      /\ frames[p].got = <<0, 1>>
                      /\ frames[p].gotAt >= frames[p].awaitAt + a
                      /\ frames[p].gotAt <= frames[p].awaitAt + a + ClockTick

\* The parent of when_any(sleep 1 -> 1, sleep 3 -> 2) has been resumed with
\* (0, 1) before the clock reached 3.
C9_Witness ==
    \E c \in FrameIds :
        /\ RaceOf(c, 1, 3)
        /\ frames[c].mPrevious = 1
        /\ frames[1].gotFrom = c
        /\ frames[1].got = <<0, 1>>
        /\ frames[1].gotAt < 3

\* --------------------------------------------------------------- C10
NoThrow(b) == \A i \in DOMAIN b : b[i].op # "throw"

Done(S) == Cardinality({f \in S : frames[f].st = "final"})

\* C10 (when_all completion): with no child throwing, mCount starts at the
\* number N of children and is decremented once per completed child; only the
\* helper that brings it to zero returns the parent's handle; the others return
\* a no-op handle; so the parent is resumed only after all N have completed.
C10_WhenAllCompletion ==
    \A c \in FrameIds :
        (/\ frames[c].kind = "whenAllImpl"
         /\ frames[c].pc >= 2
         /\ \A i \in DOMAIN frames[c].kids : NoThrow(frames[frames[c].kids[i]].body)) =>
            LET N == Len(frames[c].kids)
                H == Range(frames[c].helpers)
                K == Range(frames[c].kids)
                resumers == {h \in H : frames[h].st = "final" /\ frames[h].mPrevious # 0}
            IN /\ frames[c].mCount = N - Done(H)
               /\ \A i \in 1..N :
                      frames[frames[c].helpers[i]].st = "final" =>
                          frames[frames[c].kids[i]].st = "final"
               /\ \A h \in resumers : frames[h].mPrevious = c
               /\ Cardinality(resumers) = IF frames[c].mCount = 0 THEN 1 ELSE 0
               /\ frames[c].pc = 3 =>
                      /\ Done(K) = N
                      /\ frames[c].mCount = 0
                      /\ frames[c].resumes = 2
               /\ frames[c].st = "final" =>
                      frames[c].mResult =
                          TupleOf([i \in 1..N |-> <<frames[frames[c].kids[i]].mResult>>])

\* A when_all of two sleeping children: the first helper has finished and
\* returned the no-op handle, the count is 1, the parent still waits.
C10_Witness ==
    \E c \in FrameIds :
        /\ frames[c].kind = "whenAllImpl" /\ Live(c)
        /\ Len(frames[c].kids) = 2
        /\ frames[c].mCount = 1
        /\ frames[c].pc = 2
        /\ \E h \in Range(frames[c].helpers) :
               frames[h].st = "final" /\ frames[h].mPrevious = 0

\* --------------------------------------------------------------- C11
\* C11 (when_all failure semantics): the coroutine awaiting the helpers of a
\* when_all is resumed only when all N children have run to completion, also
\* when one of them threw.
C11_WhenAllFailure ==
    \A c \in FrameIds :
        (frames[c].kind = "whenAllImpl" /\ Live(c) /\ frames[c].pc = 3) =>
            \A i \in DOMAIN frames[c].kids :
                frames[frames[c].kids[i]].st = "final"

\* --------------------------------------------------------------- C12
\* The helpers of c that have finished.
Finished(c) == {h \in Range(frames[c].helpers) : frames[h].st = "final"}

\* C12 (when_any first failure): when the first child of a when_any to finish
\* ended with an exception, that exception is in the control block, the
\* awaiting coroutine is resumed at that moment, no winning index is recorded,
\* and the await on when_any raises that exception in the parent.
C12_WhenAnyFirstFailure ==
    /\ \A c \in FrameIds :
        (frames[c].kind = "whenAnyImpl" /\ Live(c) /\ Cardinality(Finished(c)) = 1) =>
            LET h == CHOOSE x \in Finished(c) : TRUE
                e == frames[frames[h].t].mException
            IN e # 0 =>
                 /\ frames[c].cException = e
                 /\ frames[c].mIndex = kNullIndex
                 /\ frames[c].indexWrites = 0
                 /\ frames[h].mPrevious = c
                 /\ frames[c].resumes = 2
                 /\ frames[c].pc = 3 => frames[c].gotAt = frames[h].doneAt
                 /\ frames[c].st = "final" =>
                        /\ frames[c].mException = e
                        /\ ~frames[c].hasResult
                        /\ frames[c].doneAt = frames[h].doneAt
    /\ \A c \in FrameIds :
        (frames[c].kind = "whenAnyImpl" /\ frames[c].mPrevious # 0
             /\ frames[frames[c].mPrevious].gotFrom = c) =>
            LET p == frames[c].mPrevious IN
            /\ frames[p].gotExc = frames[c].mException
            /\ frames[p].gotAt = frames[c].doneAt
            /\ frames[p].gotExc # 0 => frames[p].mException = frames[p].gotExc

\* The parent of when_any(sleep 2 -> 1, sleep 1 then throw 7) has the
\* exception 7 from its await at time 1 or 2, before the other child is done.
C12_Witness ==
    \E c \in FrameIds :
        /\ frames[c].kind = "whenAnyImpl"
        /\ frames[c].st = "final"
        /\ frames[c].mException = 7
        /\ frames[c].mPrevious = 1
        /\ frames[frames[c].mPrevious].gotFrom = c
        /\ frames[frames[c].mPrevious].gotExc = 7
        /\ frames[frames[c].kids[1]].st # "final"
        /\ frames[frames[c].kids[2]].gotAt > 0

\* --------------------------------------------------------------- C13
\* C13 (combinator parent resumed once): the control block's mPrevious is set
\* before any helper runs, and at most one helper of a when_all / when_any
\* hands control to it.
C13_ParentResumedOnce ==
    \A c \in FrameIds :
        IsImpl(frames[c].kind) =>
            /\ \A h \in Range(frames[c].helpers) :
                   frames[h].resumes > 0 => frames[c].cPrevious = c
            /\ Cardinality({h \in Finished(c) : frames[h].mPrevious # 0}) <= 1

\* --------------------------------------------------------------- C14
\* C14 (when_any winning index written once): control.mIndex of one when_any
\* is written at most once.
C14_IndexWrittenOnce ==
    \A c \in FrameIds :
        frames[c].kind = "whenAnyImpl" => frames[c].indexWrites <= 1

\* --------------------------------------------------------------- C15
\* C15 (losing children of when_any): a child of a when_any is at its final
\* suspension point when its frame is destroyed, so every child runs to
\* completion.
C15_LosersComplete ==
    \A c \in FrameIds :
        frames[c].kind = "whenAnyImpl" =>
            \A i \in DOMAIN frames[c].kids :
                LET k == frames[c].kids[i] IN
                ~frames[k].alive => frames[k].st = "final"

\* --------------------------------------------------------------- C16
\* C16 (no dangling resumers): every handle in the ready queue or in the timer
\* structure refers to a frame that is alive and suspended before its end.
C16_NoDanglingResumers ==
    /\ \A i \in DOMAIN mReadyQueue :
           Live(mReadyQueue[i]) /\ frames[mReadyQueue[i]].st # "final"
    /\ \A i \in DOMAIN mTimerHeap :
           Live(mTimerHeap[i].coroutine) /\ frames[mTimerHeap[i].coroutine].st # "final"

\* ---------------------------------------------------------------- C17
\* C17 (one-shot reactor registration): a registration that can still deliver
\* belongs to a coroutine that is suspended in that very wait; once a wait has
\* been delivered and its waiter resumed, the fd delivers nothing more until
\* it is armed again.
C17_OneShotRegistration ==
    \A fd \in Armed :
        /\ aTask[interest[fd].ptr].st = "parked"
        /\ aTask[interest[fd].ptr].wid = interest[fd].wid

\* ---------------------------------------------------------------- C18
\* C18 (readFile retry bound): a readFile call reads once and completes with
\* that result unless the read would block (EAGAIN); then it waits for input
\* once and reads exactly once more, completing with the second result
\* whatever it is: at most two reads, at most one suspension.
C18_ReadFileRetryBound ==
    \A t \in TaskIds :
        aTask[t].io.op = "read" =>
            LET io == aTask[t].io IN
            /\ io.reads \in 1..2
            /\ io.waits <= 1
            /\ io.parks <= io.waits
            /\ io.waits = 1 <=> (io.first.len = -1 /\ io.first.errno = Errno.EAGAIN)
            /\ io.done => (io.reads = 1 + io.waits /\ io.ret = io.last.len)
            /\ ~io.done => (io.reads = 1 /\ io.waits = 1)

\* A readFile call that found nothing to read, was suspended once, was resumed
\* by the reactor, found nothing again and completed with -1.
C18_Witness ==
    \E t \in TaskIds :
        /\ aTask[t].io.op = "read"
        /\ aTask[t].io.done
        /\ aTask[t].io.reads = 2
        /\ aTask[t].io.parks = 1
        /\ aTask[t].io.last.errno = Errno.EAGAIN
        /\ aTask[t].io.ret = -1
        /\ aTask[t].resumes >= 2

\* ---------------------------------------------------------------- C19
\* C19 (writeFile mirrors readFile): a writeFile call waits for output
\* readiness only after a first ::write that would block, and completes after
\* one write more than it has waited.
C19_WriteFileMirrorsRead ==
    \A t \in TaskIds :
        aTask[t].io.op = "write" =>
            LET io == aTask[t].io IN
            /\ io.waits > 0 =>
                   /\ io.writes >= 1
                   /\ io.first.len = -1
                   /\ io.first.errno = Errno.EAGAIN
            /\ io.done => io.writes = 1 + io.waits

\* ---------------------------------------------------------------- C20
\* C20 (connect outcome): socketConnect completes without waiting when
\* ::connect succeeds; when ::connect reports EINPROGRESS it waits at most
\* once, queries SO_ERROR at most once and has completed after that query.
C20_ConnectOutcome ==
    \A t \in TaskIds :
        aTask[t].io.op = "connect" =>
            LET io == aTask[t].io IN
            /\ io.res.len = 0 => (io.done /\ io.waits = 0)
            /\ (io.res.len = -1 /\ io.res.errno = Errno.EINPROGRESS) =>
                   /\ io.waits <= 1
                   /\ io.queries <= 1
                   /\ io.queries = 1 => io.done

\* ---------------------------------------------------------------- C21
\* C21 (terminal I/O errors): a ::read or ::write that fails with an error
\* other than EAGAIN does not terminate the process, and the call completes
\* with an outcome other than -1, which is what a call whose last attempt
\* would block completes with.
C21_TerminalIOErrors ==
    /\ aPc # "terminated"
    /\ \A t \in TaskIds :
           LET io == aTask[t].io IN
           (/\ io.op \in {"read", "write"}
            /\ io.done
            /\ io.last.len = -1
            /\ io.last.errno # Errno.EAGAIN) => io.ret # -1

\* ---------------------------------------------------------------- C22
Owners(fd) == {o \in FileIds : files[o].st = "live" /\ files[o]._fd = fd}

\* C22 (AsyncFile resource discipline): every descriptor an AsyncFile was
\* constructed from is either owned by exactly one live object and not closed,
\* or owned by none and closed exactly once; it was out of the epoll interest
\* list when it was closed.
C22_ResourceDiscipline ==
    \A fd \in FdIds :
        fdtab[fd].made =>
            /\ fdtab[fd].closes + Cardinality(Owners(fd)) = 1
            /\ fdtab[fd].closes = 1 => (~fdtab[fd].in /\ ~fdtab[fd].inAtClose)

\* A descriptor was moved out of the object constructed from it, that object
\* was destroyed, and the destructor of another object closed it, once.
C22_Witness ==
    \E fd \in FdIds :
        /\ fdtab[fd].made
        /\ fdtab[fd].closes = 1
        /\ fdtab[fd].closedBy # fdtab[fd].by
        /\ files[fdtab[fd].by].st = "dead"
        /\ files[fdtab[fd].closedBy].st = "dead"

\* ---------------------------------------------------------------- C30
\* C30 (reactor registration count): EpollLoop::_count is the number of live
\* AsyncFile objects whose _fd is not -1.
C30_RegistrationCount ==
    _count = Cardinality({o \in FileIds : files[o].st = "live" /\ files[o]._fd # -1})

\* ---------------------------------------------------------------- C23
\* C23 (at-most-once completion): a task at its final suspension point has
\* written its promise once: either the return value or the exception, not
\* both and not twice.
C23_AtMostOnceCompletion ==
    \A f \in FrameIds :
        (Live(f) /\ frames[f].kind = "task" /\ frames[f].st = "final") =>
            /\ frames[f].writes = 1
            /\ frames[f].hasResult # (frames[f].mException # 0)

\* ---------------------------------------------------------------- C24
\* C24 (executor drains the ready queue), for AsyncLoop::run: when the loop
\* has returned, every coroutine that was given to TimerLoop::addTask has been
\* resumed and the queue is empty.
C24_ReadyQueueDrained ==
    aPc = "returned" =>
        /\ \A i \in DOMAIN aProg :
               aProg[i].start = "addTask" => aTask[i].resumes > 0
        /\ _taskQueue = <<>>

\* ---------------------------------------------------------------- C25
\* C25 (timer ties are FIFO): of two timers with the same deadline, the one
\* registered first is resumed first.
C25_TimerTiesFIFO ==
    \A i, j \in DOMAIN fired :
        (i < j /\ fired[i].expireTime = fired[j].expireTime) =>
            fired[i].seq < fired[j].seq

\* ---------------------------------------------------------------- C26
\* C26 (timer entries fire exactly once and never early), for TimerLoop::run:
\* the resumer of a timer entry is read while the entry is still in the timer
\* structure, the coroutine a timer resumes is not resumed before its
\* deadline, and no entry of a coroutine that is not sleeping remains.
C26_TimerFiresOnce ==
    /\ "read of erased iterator" \notin aUb
    /\ \A i \in DOMAIN _timerRBTree :
           aTask[_timerRBTree[i].coroutine].st = "sleeping"
    /\ \A i, j \in DOMAIN _timerRBTree :
           _timerRBTree[i].coroutine = _timerRBTree[j].coroutine => i = j

\* ---------------------------------------------------------------- C27
\* C27 (reactor wait is bounded by the next timer): the executor does not stay
\* in epoll_wait past the earliest deadline: while a timer is pending the
\* clock is at most one tick past its deadline.
C27_WaitBoundedByTimer ==
    \A i \in DOMAIN _timerRBTree :
        aNow <= _timerRBTree[i].expireTime + ClockTick

\* ---------------------------------------------------------------- C28
\* C28 (registration failure is reported): a coroutine whose wait could not
\* be armed is not left parked, and what its co_await waitFileEvent returned
\* differs from what a readiness delivery for the requested mask returns.
C28_RegistrationFailureReported ==
    \A t \in TaskIds :
        aTask[t].waitFailed =>
            /\ aTask[t].st # "parked"
            /\ aTask[t].waitGot #
                   EpollFileAwaiter_await_resume(aTask[t].waitMask, TRUE)

\* ---------------------------------------------------------------- C29
\* C29 (no lost fd waiter): every coroutine parked in waitFileEvent is the
\* resumer registered for its fd, or an event carrying its promise is waiting
\* to be handled.
C29_NoLostWaiter ==
    \A t \in Parked :
        \/ /\ aTask[t].fd \in TaskIds
           /\ interest[aTask[t].fd].in
           /\ interest[aTask[t].fd].ptr = t
           /\ interest[aTask[t].fd].wid = aTask[t].wid
        \/ \E k \in DOMAIN evs : evs[k].ptr = t /\ evs[k].wid = aTask[t].wid
====
